---- MODULE Spec2Model ----
(***************************************************************************)
(* Dispatch-processing pipeline of customer-dispatch-automation:           *)
(*   - ProcessedEmailTracker (the deduplication ledger),                   *)
(*   - EmailMonitor (the inbox watcher),                                   *)
(*   - Scheduler and the ScreenshotService session it shares,              *)
(*   - ScreenshotService.captureUsage and CPowerEmailParser.               *)
(* One specification is given per component:                               *)
(*   SpecLedger    the tracker driven through its public methods,          *)
(*   SpecMonitor   the watcher, its checks interleaved at their awaits,    *)
(*   SpecScheduler the scheduler, its jobs interleaved at their awaits,    *)
(*   SpecJob       the jobs of one dispatch event, sends failing or not,   *)
(*   SpecCapture   one ScreenshotService driven through its methods,       *)
(*   SpecParser    parseEmailContent applied to each raw email,            *)
(*   SpecSave      markAsProcessed calls, their saves step by step,        *)
(*   SpecReadiness hasUsageData applied to each page,                      *)
(*   SpecReconnect the watcher's connection across server faults, with     *)
(*                 the fairness of its timer and awaits,                   *)
(*   SpecRegistration the registration dropdown of captureUsage,           *)
(*   SpecWait      the waits of captureUsage, with the fairness of its     *)
(*                 awaits.                                                 *)
(***************************************************************************)
EXTENDS Integers, Sequences, FiniteSets, TLC

VARIABLES
    \* ---- ProcessedEmailTracker ----
    processed,      \* this.processed : messageId -> ProcessedEmail
    tmpFile,        \* `${filePath}.tmp` on disk (NoFile when absent)
    ledgerFile,     \* the ledger file on disk (NoFile when absent)
    lastOp,         \* the tracker call that returned last (SpecLedger)
    everIds,        \* history (SpecLedger): every message id recorded so far
    everHashes,     \* history (SpecLedger): every content hash recorded so far
    \* ---- EmailMonitor ----
    mailbox,        \* the INBOX: uid -> [content, seen]
    connected,      \* this.connection !== null
    isMonitoring,   \* this.isMonitoring
    intervalId,     \* this.intervalId !== null (the polling timer is armed)
    checks,         \* the checkForNewEmails() invocations in flight
    emitted,        \* number of 'dispatch' events emitted, per mail uid
    \* ---- Scheduler / ScreenshotService ----
    now,            \* wall clock, in seconds of the model's calendar
    jobCounter,     \* this.jobCounter
    jobs,           \* this.jobs : jobId -> ScheduledJob
    procs,          \* the processFacility() invocations in flight, by job id
    svc,            \* this.screenshotService and its browser/page/login fields
    browsers,       \* the browsers launched and still alive, by launching job id
    events,         \* the events processFacility has emitted since the last timer tick, by job id
    lastCall,       \* history: the Scheduler method the last step called, with its result
    scheduled,      \* number of scheduleDispatchNotifications calls so far
    \* ---- ScreenshotService on its own ----
    service,        \* a ScreenshotService object: browser, context, page, isLoggedIn
    call,           \* the method of it that is running or returned last
    \* ---- CPowerEmailParser ----
    email,          \* the raw email handed to parseEmailContent
    parsed,         \* what parseEmailContent returned for it
    \* ---- ProcessedEmailTracker.save, call by call ----
    disk,           \* the temp path and the ledger path: the file each one names
    saves,          \* the markAsProcessed() calls in flight, by caller
    \* ---- ScreenshotService.captureUsage: hasUsageData ----
    shown,          \* the portal page: its text elements, chart, whether it raises
    ready,          \* what hasUsageData() returned for it
    \* ---- EmailMonitor: the connection over time ----
    net,            \* the mail server: reachable or not, and the faults so far
    link,           \* this.connection: null, a live connection, or one whose socket is lost
    poll,           \* the polling timer and the check it started
    seen,           \* history: checks that failed, fetches since the last fault
    \* ---- ScreenshotService.captureUsage: the registration dropdown ----
    reg,            \* facilityName, dispatchType, the dropdown's options, the options whose view has data
    trial,          \* registrationsToTry and the loop over it
    \* ---- ScreenshotService.captureUsage: its waits ----
    portal,         \* what the portal page shows while captureUsage waits
    wait            \* the wait captureUsage is in, its clock and its result

ledgerVars == <<processed, tmpFile, ledgerFile, lastOp, everIds, everHashes>>
monitorVars == <<mailbox, connected, isMonitoring, intervalId, checks, emitted>>
schedVars == <<now, jobCounter, jobs, procs, svc, browsers, events, lastCall, scheduled>>
captureVars == <<service, call>>
parserVars == <<email, parsed>>
saveVars == <<disk, saves>>
readyVars == <<shown, ready>>
reconnVars == <<net, link, poll, seen>>
regVars == <<reg, trial>>
waitVars == <<portal, wait>>
lateVars == <<regVars, waitVars>>
restVars == <<readyVars, reconnVars, lateVars>>
otherVars == <<captureVars, parserVars, saveVars, restVars>>
vars == <<ledgerVars, monitorVars, schedVars, otherVars>>

(***************************************************************************)
(* Raw emails.  A raw email is its header fields and whether the body      *)
(* carries the start/end time labels; `body` tells apart emails that agree *)
(* on everything else.                                                     *)
(***************************************************************************)
NoHeaderId == ""

RawEmails ==
    { [hdrId |-> NoHeaderId, from |-> "cpowerdispatch", subjectOk |-> TRUE, times |-> TRUE, body |-> 1],
      [hdrId |-> "<a@x>",    from |-> "cpowerdispatch", subjectOk |-> TRUE, times |-> TRUE, body |-> 2],
      [hdrId |-> NoHeaderId, from |-> "cpower",         subjectOk |-> FALSE, times |-> FALSE, body |-> 3],
      [hdrId |-> NoHeaderId, from |-> "other",          subjectOk |-> TRUE, times |-> TRUE, body |-> 4] }

\* from.toLowerCase().includes('cpowerdispatch') / includes('cpower')
FromIncludesCpowerDispatch(from) == from = "cpowerdispatch"
FromIncludesCpower(from) == from \in {"cpowerdispatch", "cpower"}

\* CPowerEmailParser.isDispatchEmail
IsDispatchEmail(raw) == FromIncludesCpowerDispatch(raw.from) /\ raw.subjectOk

\* CPowerEmailParser.parseEmailContent: TRUE when a DispatchEvent is returned,
\* FALSE when the result is null.
ParsesToDispatch(raw) == IsDispatchEmail(raw) /\ raw.times

(***************************************************************************)
(* ProcessedEmailTracker                                                   *)
(***************************************************************************)
\* a file on disk: absent, or the set of the JSON records it holds
NoFile == [exists |-> FALSE, entries |-> {}]
FileOf(entries) == [exists |-> TRUE, entries |-> entries]

HashModulus == 65521

\* cleanOldEntries: setDate(getDate() - 30)
RetentionDays == 30

\* the day of `new Date()` during a run, in days of the model's calendar
Today == 40

\* generateHash: a digest of the whole raw content (header id, sender,
\* subject, body), as a number below HashModulus.
SenderCode(from) == CASE from = "cpowerdispatch" -> 1 [] from = "cpower" -> 2 [] OTHER -> 3

GenerateHash(raw) ==
    LET h0 == IF raw.hdrId = NoHeaderId THEN 7 ELSE 11
        h1 == (h0 * 31 + SenderCode(raw.from)) % HashModulus
        h2 == (h1 * 31 + (IF raw.subjectOk THEN 1 ELSE 0)) % HashModulus
        h3 == (h2 * 31 + (IF raw.times THEN 1 ELSE 0)) % HashModulus
    IN  (h3 * 31 + raw.body) % HashModulus

\* isProcessed without the content-hash loop (a faulty variant)
IsProcessedByIdOnly(map, messageId, raw) == messageId \in DOMAIN map

\* isProcessed(messageId, content)
IsProcessed(map, messageId, raw) ==
    \/ messageId \in DOMAIN map
    \/ \E k \in DOMAIN map : map[k].contentHash = GenerateHash(raw)

\* markAsProcessed adding its entry under a key of its own for each content
\* (a faulty variant)
ProcessedSetPerContent(map, messageId, raw) ==
    LET key == messageId \o "#" \o ToString(GenerateHash(raw))
    IN  [k \in DOMAIN map \cup {key} |->
            IF k = key
            THEN [messageId |-> messageId, contentHash |-> GenerateHash(raw),
                  processedAt |-> Today]
            ELSE map[k]]

\* markAsProcessed, up to this.processed.set(messageId, entry)
ProcessedSet(map, messageId, raw) ==
    [k \in DOMAIN map \cup {messageId} |->
        IF k = messageId
        THEN [messageId |-> messageId, contentHash |-> GenerateHash(raw),
              processedAt |-> Today]
        ELSE map[k]]

\* save(): Array.from(this.processed.values())
Entries(map) == {map[k] : k \in DOMAIN map}

\* getStats().total: the length of Array.from(this.processed.values())
StatsTotal(map) == Cardinality(DOMAIN map)

\* initialize(): every entry of the file is set into the map, over what the
\* map already holds; processedAt is written as an ISO string and read back
\* with new Date(...), to the same day
LoadEntries(map, file) ==
    IF ~file.exists THEN map
    ELSE [k \in DOMAIN map \cup {e.messageId : e \in file.entries} |->
            IF \E e \in file.entries : e.messageId = k
            THEN CHOOSE e \in file.entries : e.messageId = k
            ELSE map[k]]

EmptyMap == [k \in {} |-> 0]

\* cleanOldEntries without its delete (a faulty variant)
CleanOldEntriesKeepingAll(map) == map

\* cleanOldEntries(), its loop: delete when entry.processedAt < thirtyDaysAgo
CleanOldEntries(map) ==
    [k \in {m \in DOMAIN map : ~(map[m].processedAt < Today - RetentionDays)} |-> map[k]]

\* initialize() on the map and the ledger file it finds: ENOENT leaves the
\* map alone; else load, cleanOldEntries, and save() when cleaned > 0
InitializeOf(map, file) ==
    IF ~file.exists THEN [processed |-> map, ledgerFile |-> file, cleaned |-> FALSE]
    ELSE LET loaded == LoadEntries(map, file)
             kept == CleanOldEntries(loaded)
         IN  [processed |-> kept,
              ledgerFile |-> IF kept # loaded THEN FileOf(Entries(kept)) ELSE file,
              cleaned |-> kept # loaded]

(***************************************************************************)
(* SpecLedger: the tracker driven through its public methods, each call    *)
(* awaited before the next one is made (as the tracker's tests do).        *)
(***************************************************************************)
\* messageId = parsed.messageId || `uid-${uid}`
UidMessageId(uid) == "uid-" \o ToString(uid)

LedgerIds == {"<a@x>", UidMessageId(1), UidMessageId(2)}

LedgerRaws == {r \in RawEmails : r.body \in {1, 2, 3}}

\* ledger files an earlier run of the program can have left behind
EarlierFiles ==
    {NoFile, FileOf({})} \cup
    { FileOf(Entries(ProcessedSet(EmptyMap, UidMessageId(1), r))) : r \in {x \in LedgerRaws : x.body = 1} }

FileIds(file) == {e.messageId : e \in file.entries}
FileHashes(file) == {e.contentHash : e \in file.entries}

NoOp == [op |-> "none"]

\* a tracker just constructed, over the ledger file an earlier run left
InitTracker ==
    /\ processed = EmptyMap
    /\ tmpFile = NoFile
    /\ ledgerFile \in EarlierFiles
    /\ lastOp = NoOp
    /\ everIds = FileIds(ledgerFile)
    /\ everHashes = FileHashes(ledgerFile)

\* the entries an earlier run can have recorded 31 days, 30 days and a day
\* before this one
AgedEntry(id, body, age) ==
    [messageId |-> id, contentHash |-> GenerateHash(CHOOSE r \in LedgerRaws : r.body = body),
     processedAt |-> Today - age]
AgedEntries ==
    { AgedEntry(UidMessageId(1), 1, RetentionDays + 1),
      AgedEntry(UidMessageId(2), 3, RetentionDays),
      AgedEntry("<a@x>", 2, 1) }

\* ledger files earlier runs can have left behind over the last weeks
AgedFiles == {NoFile} \cup {FileOf(es) : es \in SUBSET AgedEntries}

\* a tracker just constructed, over a ledger file of any age
InitTrackerAged ==
    /\ processed = EmptyMap
    /\ tmpFile = NoFile
    /\ ledgerFile \in AgedFiles
    /\ lastOp = NoOp
    /\ everIds = FileIds(ledgerFile)
    /\ everHashes = FileHashes(ledgerFile)

\* a tracker just constructed, no ledger file yet
InitTrackerNoFile ==
    /\ processed = EmptyMap
    /\ tmpFile = NoFile
    /\ ledgerFile = NoFile
    /\ lastOp = NoOp
    /\ everIds = {}
    /\ everHashes = {}

\* initialize(): readFile, JSON.parse, set every entry, cleanOldEntries and
\* the save() it makes
TrackerInitialize ==
    /\ processed' = InitializeOf(processed, ledgerFile).processed
    /\ ledgerFile' = InitializeOf(processed, ledgerFile).ledgerFile
    /\ lastOp' = [op |-> "initialize", before |-> processed, file |-> ledgerFile]
    /\ UNCHANGED <<tmpFile, everIds, everHashes, monitorVars, schedVars, otherVars>>

\* initialize() whose cleanOldEntries had entries to delete and whose save()
\* rejects at writeFile: the catch block of initialize logs the error, the
\* map is cleaned and the file is left as it was
TrackerInitializeSaveFails ==
    /\ InitializeOf(processed, ledgerFile).cleaned
    /\ processed' = InitializeOf(processed, ledgerFile).processed
    /\ lastOp' = [op |-> "initializeSaveFailed", before |-> processed, file |-> ledgerFile]
    /\ UNCHANGED <<tmpFile, ledgerFile, everIds, everHashes, monitorVars, schedVars, otherVars>>

\* markAsProcessed(messageId, subject, from, content), save() included:
\* writeFile(temp) then rename(temp, file)
TrackerMarkAsProcessed(id, raw) ==
    /\ processed' = ProcessedSet(processed, id, raw)
    /\ tmpFile' = NoFile
    /\ ledgerFile' = FileOf(Entries(processed'))
    /\ lastOp' = [op |-> "markAsProcessed", id |-> id, raw |-> raw,
                  had |-> id \in DOMAIN processed]
    /\ everIds' = everIds \cup {id}
    /\ everHashes' = everHashes \cup {GenerateHash(raw)}
    /\ UNCHANGED <<monitorVars, schedVars, otherVars>>

\* markAsProcessed whose save() rejects at writeFile: the map is already
\* updated, the call does not complete
TrackerMarkSaveFails(id, raw) ==
    /\ processed' = ProcessedSet(processed, id, raw)
    /\ lastOp' = [op |-> "markAsProcessedFailed", id |-> id, raw |-> raw,
                  had |-> id \in DOMAIN processed]
    /\ everIds' = everIds \cup {id}
    /\ everHashes' = everHashes \cup {GenerateHash(raw)}
    /\ UNCHANGED <<tmpFile, ledgerFile, monitorVars, schedVars, otherVars>>

\* reset(): clear the map, unlink the file
TrackerReset ==
    /\ processed' = EmptyMap
    /\ ledgerFile' = NoFile
    /\ lastOp' = [op |-> "reset"]
    /\ UNCHANGED <<tmpFile, everIds, everHashes, monitorVars, schedVars, otherVars>>

(***************************************************************************)
(* EmailMonitor.  A check is one invocation of checkForNewEmails(); its pc *)
(* is the await it is suspended at.  Several checks can be in flight: the  *)
(* setInterval callback and checkNow() start one whatever is running.      *)
(***************************************************************************)
MaxMails == 2
MaxChecks == 2

CheckSlots == 1..MaxChecks

IdleCheck == [pc |-> "idle", origin |-> "none", msgs |-> <<>>, snapshot |-> {}]

Unseen == {u \in DOMAIN mailbox : ~mailbox[u].seen}

\* the uids of a set, in ascending order (the order of the search result)
RECURSIVE UidSeq(_)
UidSeq(S) ==
    IF S = {} THEN <<>>
    ELSE LET u == CHOOSE x \in S : \A y \in S : x <= y
         IN  <<u>> \o UidSeq(S \ {u})

\* processMessage: messageId = parsed.messageId || `uid-${uid}`
MessageIdOf(uid) ==
    IF mailbox[uid].raw.hdrId # NoHeaderId THEN mailbox[uid].raw.hdrId ELSE UidMessageId(uid)

InitMonitor ==
    /\ mailbox = <<>>
    /\ connected = FALSE
    /\ isMonitoring = FALSE
    /\ intervalId = FALSE
    /\ checks = [s \in CheckSlots |-> IdleCheck]
    /\ emitted = [u \in 1..MaxMails |-> 0]

\* the mail server delivers a message to the INBOX
Deliver(raw) ==
    /\ Len(mailbox) < MaxMails
    /\ mailbox' = Append(mailbox, [raw |-> raw, seen |-> FALSE])
    /\ UNCHANGED <<schedVars, otherVars, connected, isMonitoring, intervalId, checks, emitted, ledgerVars>>

\* connect(): imaps.connect, then tracker.initialize()
Connect ==
    /\ ~connected
    /\ connected' = TRUE
    /\ processed' = InitializeOf(processed, ledgerFile).processed
    /\ ledgerFile' = InitializeOf(processed, ledgerFile).ledgerFile
    /\ UNCHANGED <<schedVars, otherVars, mailbox, isMonitoring, intervalId, checks, emitted,
                   tmpFile, lastOp, everIds, everHashes>>

\* checkForNewEmails, up to `await this.connection.openBox('INBOX')`
BeginCheck(s, origin) ==
    /\ checks[s].pc = "idle"
    /\ checks' = [checks EXCEPT ![s] = [IdleCheck EXCEPT !.pc = "search", !.origin = origin]]

\* startMonitoring(): sets isMonitoring and awaits a first check; the interval
\* is set when that check returns
StartMonitoring(s) ==
    /\ connected
    /\ ~isMonitoring
    /\ isMonitoring' = TRUE
    /\ BeginCheck(s, "start")
    /\ UNCHANGED <<schedVars, otherVars, mailbox, connected, intervalId, emitted, ledgerVars>>

\* the setInterval callback: if (this.isMonitoring) await checkForNewEmails()
PollTick(s) ==
    /\ intervalId
    /\ isMonitoring
    /\ connected
    /\ BeginCheck(s, "tick")
    /\ UNCHANGED <<schedVars, otherVars, mailbox, connected, isMonitoring, intervalId, emitted, ledgerVars>>

\* checkNow()
CheckNow(s) ==
    /\ connected
    /\ BeginCheck(s, "manual")
    /\ UNCHANGED <<schedVars, otherVars, mailbox, connected, isMonitoring, intervalId, emitted, ledgerVars>>

\* stopMonitoring()
StopMonitoring ==
    /\ intervalId' = FALSE
    /\ isMonitoring' = FALSE
    /\ UNCHANGED <<schedVars, otherVars, mailbox, connected, checks, emitted, ledgerVars>>

\* the check returns to its caller; startMonitoring then sets the interval
FinishedCheck(c) == [IdleCheck EXCEPT !.origin = "none"]

ArmAfter(c) == IF c.origin = "start" THEN TRUE ELSE intervalId

\* processMessage is done with the first message of c.msgs: the loop goes on
\* to the next one (up to its `await simpleParser`) or the check returns
NextMessage(s) ==
    LET c == checks[s]
        rest == Tail(c.msgs)
    IN  IF rest = <<>>
        THEN /\ checks' = [checks EXCEPT ![s] = FinishedCheck(c)]
             /\ intervalId' = ArmAfter(c)
        ELSE /\ checks' = [checks EXCEPT ![s] = [c EXCEPT !.pc = "simpleParser", !.msgs = rest]]
             /\ UNCHANGED intervalId

\* connection.search(['UNSEEN']) resolves
CheckSearch(s) ==
    LET c == checks[s]
        found == UidSeq(Unseen)
    IN  /\ c.pc = "search"
        /\ IF found = <<>>
           THEN /\ checks' = [checks EXCEPT ![s] = FinishedCheck(c)]
                /\ intervalId' = ArmAfter(c)
           ELSE /\ checks' = [checks EXCEPT ![s] = [c EXCEPT !.pc = "simpleParser", !.msgs = found]]
                /\ UNCHANGED intervalId
        /\ UNCHANGED <<schedVars, otherVars, mailbox, connected, isMonitoring, emitted, ledgerVars>>

\* processMessage after `await simpleParser(rawEmail)`: tracker.isProcessed,
\* then markAsRead(uid) (already processed) or parser.parseEmailContent
MessageChecked(s) ==
    LET c == checks[s]
        uid == Head(c.msgs)
    IN  /\ c.pc = "simpleParser"
        /\ checks' = [checks EXCEPT ![s].pc =
                        IF IsProcessed(processed, MessageIdOf(uid), mailbox[uid].raw)
                        THEN "markReadSkip" ELSE "parseEmailContent"]
        /\ UNCHANGED <<schedVars, otherVars, mailbox, connected, isMonitoring, intervalId, emitted, ledgerVars>>

\* markAsRead(uid): addFlags resolves (ok) or rejects (caught and logged)
MarkedRead(uid, ok) ==
    IF ok THEN [mailbox EXCEPT ![uid].seen = TRUE] ELSE mailbox

\* the already-processed message has been marked read
SkipMarkedRead(s, ok) ==
    /\ checks[s].pc = "markReadSkip"
    /\ mailbox' = MarkedRead(Head(checks[s].msgs), ok)
    /\ NextMessage(s)
    /\ UNCHANGED <<schedVars, otherVars, connected, isMonitoring, emitted, ledgerVars>>

\* parser.parseEmailContent resolved with a DispatchEvent: markAsProcessed
\* sets the entry and save() starts writing the temp file
ParsedDispatch(s) ==
    LET c == checks[s]
        uid == Head(c.msgs)
        id == MessageIdOf(uid)
        raw == mailbox[uid].raw
    IN  /\ c.pc = "parseEmailContent"
        /\ ParsesToDispatch(raw)
        /\ processed' = ProcessedSet(processed, id, raw)
        /\ checks' = [checks EXCEPT ![s] = [c EXCEPT !.pc = "writeFile",
                                                     !.snapshot = Entries(processed')]]
        /\ UNCHANGED <<schedVars, otherVars, mailbox, connected, isMonitoring, intervalId, emitted,
                       tmpFile, ledgerFile, lastOp, everIds, everHashes>>

\* parser.parseEmailContent resolved with null and the message is marked
\* read whoever sent it (a faulty variant)
ParsedNullAnySender(s) ==
    /\ checks[s].pc = "parseEmailContent"
    /\ ~ParsesToDispatch(mailbox[Head(checks[s].msgs)].raw)
    /\ checks' = [checks EXCEPT ![s].pc = "markReadSkip"]
    /\ UNCHANGED <<schedVars, otherVars, mailbox, connected, isMonitoring, intervalId, emitted, ledgerVars>>

\* parser.parseEmailContent resolved with null: a cpower sender is marked
\* read, anything else is left alone
ParsedNull(s) ==
    LET c == checks[s]
        uid == Head(c.msgs)
    IN  /\ c.pc = "parseEmailContent"
        /\ ~ParsesToDispatch(mailbox[uid].raw)
        /\ IF FromIncludesCpower(mailbox[uid].raw.from)
           THEN /\ checks' = [checks EXCEPT ![s].pc = "markReadSkip"]
                /\ UNCHANGED intervalId
           ELSE NextMessage(s)
        /\ UNCHANGED <<schedVars, otherVars, mailbox, connected, isMonitoring, emitted, ledgerVars>>

\* save(): writeFile(tempPath, json) resolves and rename starts, or it
\* rejects and processMessage's catch logs the error
SaveWritten(s, ok) ==
    /\ checks[s].pc = "writeFile"
    /\ IF ok
       THEN /\ tmpFile' = FileOf(checks[s].snapshot)
            /\ checks' = [checks EXCEPT ![s].pc = "rename"]
            /\ UNCHANGED intervalId
       ELSE /\ NextMessage(s)
            /\ UNCHANGED tmpFile
    /\ UNCHANGED <<schedVars, otherVars, mailbox, connected, isMonitoring, emitted,
                   processed, ledgerFile, lastOp, everIds, everHashes>>

\* save(): rename(tempPath, filePath) resolves and markAsRead(uid) starts;
\* it rejects (ENOENT) when another save has already renamed the temp file
SaveRenamed(s) ==
    /\ checks[s].pc = "rename"
    /\ IF tmpFile.exists
       THEN /\ ledgerFile' = tmpFile
            /\ tmpFile' = NoFile
            /\ checks' = [checks EXCEPT ![s].pc = "markRead"]
            /\ UNCHANGED intervalId
       ELSE /\ NextMessage(s)
            /\ UNCHANGED <<tmpFile, ledgerFile>>
    /\ UNCHANGED <<schedVars, otherVars, mailbox, connected, isMonitoring, emitted,
                   processed, lastOp, everIds, everHashes>>

\* markAsRead(uid) returned: this.emit('dispatch', dispatchEvent)
EmitDispatch(s, ok) ==
    LET uid == Head(checks[s].msgs)
    IN  /\ checks[s].pc = "markRead"
        /\ mailbox' = MarkedRead(uid, ok)
        /\ emitted' = [emitted EXCEPT ![uid] = @ + 1]
        /\ NextMessage(s)
        /\ UNCHANGED <<schedVars, otherVars, connected, isMonitoring, ledgerVars>>

NextMonitor ==
    \/ \E raw \in RawEmails : Deliver(raw)
    \/ Connect
    \/ \E s \in CheckSlots : StartMonitoring(s)
    \/ \E s \in CheckSlots : PollTick(s)
    \/ \E s \in CheckSlots : CheckNow(s)
    \/ StopMonitoring
    \/ \E s \in CheckSlots : CheckSearch(s)
    \/ \E s \in CheckSlots : MessageChecked(s)
    \/ \E s \in CheckSlots, ok \in BOOLEAN : SkipMarkedRead(s, ok)
    \/ \E s \in CheckSlots : ParsedDispatch(s)
    \/ \E s \in CheckSlots : ParsedNull(s)
    \/ \E s \in CheckSlots, ok \in BOOLEAN : SaveWritten(s, ok)
    \/ \E s \in CheckSlots : SaveRenamed(s)
    \/ \E s \in CheckSlots, ok \in BOOLEAN : EmitDispatch(s, ok)

(***************************************************************************)
(* Scheduler.  Time is counted in seconds of a scaled calendar: a minute   *)
(* has SecondsPerMinute seconds and a year MinutesPerYear minutes.  A cron *)
(* expression "m h D M *" names a minute of the year and matches second 0  *)
(* of that minute, every year.                                             *)
(***************************************************************************)
SecondsPerMinute == 2
MinutesPerYear == 2
NotifyDelayMinutes == 10
Horizon == 6
MaxAhead == 2
MaxEvents == 2
MaxFacilities == 2
MaxJobs == 2

StartOfTime == NotifyDelayMinutes * SecondsPerMinute
MaxTime == StartOfTime + Horizon

\* notificationTime without the ten minutes (a faulty variant)
NotificationTimeNoDelay(startTime) == startTime

\* notificationTime = startTime with minutes + 10
NotificationTime(startTime) == startTime + NotifyDelayMinutes * SecondsPerMinute

\* dateToCron: minute, hour, day of month, month: the minute of the year;
\* seconds and year are dropped
DateToCron(date) == (date \div SecondsPerMinute) % MinutesPerYear

\* node-cron: the expression matches at second 0 of its minute, every year
CronMatches(cronExpression, t) ==
    /\ t % SecondsPerMinute = 0
    /\ (t \div SecondsPerMinute) % MinutesPerYear = cronExpression

\* facility names, as character sequences
FacilityNames == { <<"b", " ">>, <<"b", "-">> }

AlphaNum == {"a", "b"}

\* facilityName.replace(/[^a-z0-9]/gi, '-')
Sanitize(name) == [i \in DOMAIN name |-> IF name[i] \in AlphaNum THEN name[i] ELSE "-"]

\* the id built from a counter raised once per call, not once per facility
\* (a faulty variant)
JobIdOncePerCall(prefix, n, name) == <<prefix, jobCounter + 1, Sanitize(name)>>

\* `job-${n}-${sanitized}` and `immediate-${n}-${sanitized}`
JobId(prefix, n, name) == <<prefix, n, Sanitize(name)>>

MaxContacts == 2

\* ExcelService: the contact list, by facility
ContactList(name) == IF name = <<"b", "-">> THEN <<"ann", "al">> ELSE <<>>

\* ExcelService.findBestMatch: the best facility and its confidence (percent)
FindBestMatch(name) ==
    IF name = <<"b", "-">> THEN [facility |-> <<"b", "-">>, confidence |-> 100]
    ELSE [facility |-> <<"b", "-">>, confidence |-> 50]

FuzzyThreshold == 80

\* processFacility: exact lookup, then the fuzzy match above the threshold
ResolveContacts(name) ==
    IF ContactList(name) # <<>> THEN ContactList(name)
    ELSE IF FindBestMatch(name).confidence > FuzzyThreshold
         THEN ContactList(FindBestMatch(name).facility)
         ELSE <<>>

NoSession == <<>>

NoService == [created |-> FALSE, browser |-> NoSession, context |-> NoSession,
              page |-> NoSession, isLoggedIn |-> FALSE]

\* the capture step's result: none yet (or it raised), null, or a path to a
\* screenshot that shows the usage view of facility `of`
NoShot == [kind |-> "none", of |-> <<>>]
NullShot == [kind |-> "null", of |-> <<>>]
PathShot(name) == [kind |-> "path", of |-> name]

\* no call: the last step was a timer firing or the resolution of an await
NoCall == [op |-> "none", id |-> <<>>, ret |-> FALSE, was |-> "none",
           startTime |-> 0, facilities |-> <<>>, counterBefore |-> 0]

InitScheduler ==
    /\ now = StartOfTime
    /\ jobCounter = 0
    /\ jobs = EmptyMap
    /\ procs = EmptyMap
    /\ svc = NoService
    /\ browsers = EmptyMap
    /\ events = EmptyMap
    /\ lastCall = NoCall
    /\ scheduled = 0

\* sequences of facility names of length 0..MaxFacilities
RECURSIVE FacilityLists(_)
FacilityLists(n) ==
    IF n = 0 THEN {<<>>}
    ELSE FacilityLists(n - 1) \cup
         {Append(l, f) : l \in {x \in FacilityLists(n - 1) : Len(x) = n - 1}, f \in FacilityNames}

\* processFacility that starts its sends before the capture (a faulty variant)
StartedProcSending(name) ==
    [pc |-> "launch", facility |-> name, contacts |-> ResolveContacts(name),
     shot |-> NoShot, ownFault |-> FALSE,
     sends |-> [i \in DOMAIN ResolveContacts(name) |->
                   [to |-> ResolveContacts(name)[i], attachment |-> NoShot]],
     failed |-> {}]

\* processFacility up to its first await (fs.mkdir in initialize()):
\* status = 'running', emit jobStarted, contacts, the service is created
StartedProc(name) ==
    [pc |-> "launch", facility |-> name, contacts |-> ResolveContacts(name),
     shot |-> NoShot, ownFault |-> FALSE, sends |-> <<>>, failed |-> {}]

\* scheduleDispatchNotifications(event): event.startTime is d model seconds
\* away from (now - 10 minutes), event.facilities is facs
ScheduledJobs(facs, notificationTime) ==
    [id \in {JobId("job", jobCounter + i, facs[i]) : i \in 1..Len(facs)} |->
        [facilityName |-> facs[id[2] - jobCounter],
         scheduledTime |-> notificationTime,
         cron |-> DateToCron(notificationTime),
         armed |-> TRUE,
         status |-> "pending",
         cancelled |-> FALSE]]

\* processAllFacilities that leaves the last facility out (a faulty variant)
ImmediateProcsButLast(facs) ==
    [id \in {JobId("immediate", jobCounter + i, facs[i]) : i \in 1..(Len(facs) - 1)} |->
        StartedProc(facs[id[2] - jobCounter])]

ImmediateProcs(facs) ==
    [id \in {JobId("immediate", jobCounter + i, facs[i]) : i \in 1..Len(facs)} |->
        StartedProc(facs[id[2] - jobCounter])]

ScheduleDispatchNotifications(d, facs) ==
    LET startTime == now + d - NotifyDelayMinutes * SecondsPerMinute
        notificationTime == NotificationTime(startTime)
    IN  /\ scheduled < MaxEvents
        /\ jobCounter + Len(facs) <= MaxJobs
        /\ scheduled' = scheduled + 1
        /\ jobCounter' = jobCounter + Len(facs)
        /\ IF notificationTime <= now
           THEN \* processAllFacilities(event)
                /\ procs' = ImmediateProcs(facs) @@ procs
                /\ events' = [j \in DOMAIN ImmediateProcs(facs) |-> <<"jobStarted">>] @@ events
                /\ svc' = IF facs = <<>> THEN svc ELSE [svc EXCEPT !.created = TRUE]
                /\ UNCHANGED jobs
           ELSE /\ jobs' = ScheduledJobs(facs, notificationTime) @@ jobs
                /\ UNCHANGED <<procs, svc, events>>
        /\ lastCall' = [NoCall EXCEPT !.op = "scheduleDispatchNotifications",
                                       !.startTime = startTime, !.facilities = facs,
                                       !.counterBefore = jobCounter]
        /\ UNCHANGED <<now, browsers, ledgerVars, monitorVars, otherVars>>

\* one second passes; every cron task that is not stopped and matches the new
\* second runs its callback, processFacility, up to its first await.
\* The runs of processFacility in flight are taken to end within the model
\* second they started in.
\* the tasks that match, stopped or not (a faulty variant)
FiringThoughStopped(t) == {j \in DOMAIN jobs : CronMatches(jobs[j].cron, t)}

Firing(t) == {j \in DOMAIN jobs : jobs[j].armed /\ CronMatches(jobs[j].cron, t)}

Tick ==
    /\ now < MaxTime
    /\ procs = EmptyMap
    /\ now' = now + 1
    /\ jobs' = [j \in DOMAIN jobs |->
                  IF j \in Firing(now + 1) THEN [jobs[j] EXCEPT !.status = "running"] ELSE jobs[j]]
    /\ procs' = [j \in Firing(now + 1) |-> StartedProc(jobs[j].facilityName)]
    /\ events' = [j \in Firing(now + 1) |-> <<"jobStarted">>]
    /\ UNCHANGED browsers
    /\ svc' = IF Firing(now + 1) = {} THEN svc ELSE [svc EXCEPT !.created = TRUE]
    /\ lastCall' = NoCall
    /\ UNCHANGED <<jobCounter, scheduled, ledgerVars, monitorVars, otherVars>>

UnknownJobId == <<"job", 0, <<>>>>

\* cancelJob(jobId) without the test on the status (a faulty variant)
CancelJobAnyStatus(id) ==
    /\ id \in DOMAIN jobs \cup {UnknownJobId}
    /\ IF id \in DOMAIN jobs /\ jobs[id].armed
       THEN /\ jobs' = [jobs EXCEPT ![id].armed = FALSE, ![id].status = "failed",
                                    ![id].cancelled = TRUE]
            /\ lastCall' = [NoCall EXCEPT !.op = "cancelJob", !.id = id, !.ret = TRUE,
                                           !.was = jobs[id].status]
       ELSE /\ UNCHANGED jobs
            /\ lastCall' = [NoCall EXCEPT !.op = "cancelJob", !.id = id,
                               !.was = IF id \in DOMAIN jobs THEN jobs[id].status ELSE "unknown"]
    /\ UNCHANGED <<now, jobCounter, procs, svc, browsers, events, scheduled, ledgerVars, monitorVars, otherVars>>

\* cancelJob(jobId)
CancelJob(id) ==
    /\ id \in DOMAIN jobs \cup {UnknownJobId}
    /\ IF id \in DOMAIN jobs /\ jobs[id].armed /\ jobs[id].status = "pending"
       THEN /\ jobs' = [jobs EXCEPT ![id].armed = FALSE, ![id].status = "failed",
                                    ![id].cancelled = TRUE]
            /\ lastCall' = [NoCall EXCEPT !.op = "cancelJob", !.id = id, !.ret = TRUE,
                                           !.was = "pending"]
       ELSE /\ UNCHANGED jobs
            /\ lastCall' = [NoCall EXCEPT !.op = "cancelJob", !.id = id,
                               !.was = IF id \in DOMAIN jobs THEN jobs[id].status ELSE "unknown"]
    /\ UNCHANGED <<now, jobCounter, procs, svc, browsers, events, scheduled, ledgerVars, monitorVars, otherVars>>

(***************************************************************************)
(* processFacility and the ScreenshotService it drives.  All jobs use the  *)
(* one service object this.screenshotService: its browser, context, page   *)
(* and isLoggedIn fields are read again after every await.                 *)
(***************************************************************************)
Usable(p) == p \in DOMAIN browsers /\ browsers[p].pageOpen

PageClosed(br, p) ==
    IF p \in DOMAIN br THEN [br EXCEPT ![p].pageOpen = FALSE] ELSE br
BrowserClosed(br, p) == [b \in DOMAIN br \ {p} |-> br[b]]

\* the invocation j has returned
Returned(ps, j) == [k \in DOMAIN ps \ {j} |-> ps[k]]

\* close(), from `if (this.browser)`: browser.close() is called, or nothing
\* is left to close and isLoggedIn is reset
CloseFromBrowser(sv, br) ==
    IF sv.browser # NoSession
    THEN [pc |-> "closeBrowser", svc |-> sv, browsers |-> BrowserClosed(br, sv.browser)]
    ELSE [pc |-> "done", svc |-> [sv EXCEPT !.isLoggedIn = FALSE], browsers |-> br]

\* close(), from `if (this.page)`: page.close() and context.close() are
\* called and awaited one after the other (here in one step), or there is
\* neither and the browser is next
CloseFromPage(sv, br) ==
    IF sv.page # NoSession \/ sv.context # NoSession
    THEN [pc |-> "closePage", svc |-> sv,
          browsers |-> PageClosed(PageClosed(br, sv.page), sv.context)]
    ELSE CloseFromBrowser(sv, br)

\* a job whose login was refused ends failed (a faulty variant)
TerminalFailedOnLogin(proc) ==
    IF proc.shot = NoShot /\ proc.ownFault THEN [status |-> "failed", event |-> "jobFailed"]
    ELSE [status |-> "completed", event |-> "jobCompleted"]

\* the status and the event a run ends with when it reaches the end of the
\* try block
Terminal(proc) == [status |-> "completed", event |-> "jobCompleted"]

\* the emailFailed event of the first rejected send only (a faulty variant)
EmailFailedFirstOnly(contacts, failed, i) ==
    IF failed = {} THEN <<>>
    ELSE <<"emailFailed:" \o contacts[CHOOSE k \in failed : \A m \in failed : k <= m]>>

\* the end of the try block that emits jobCompleted and then jobFailed
\* (a faulty variant)
CompleteThenFailed(j, proc, ev, br) ==
    LET c == CloseFromPage(svc, br)
    IN  /\ procs' = IF c.pc = "done" THEN Returned(procs, j)
                  ELSE [procs EXCEPT ![j] = [proc EXCEPT !.pc = c.pc]]
        /\ events' = [ev EXCEPT ![j] = @ \o <<"jobCompleted", "jobFailed">>]
        /\ svc' = c.svc
        /\ browsers' = c.browsers
        /\ jobs' = IF j \in DOMAIN jobs THEN [jobs EXCEPT ![j].status = "failed"]
                 ELSE jobs

\* the end of processFacility's try block: status = 'completed', emit
\* jobCompleted, and the finally block calls close()
Complete(j, proc, ev, br) ==
    LET c == CloseFromPage(svc, br)
    IN  /\ procs' = IF c.pc = "done" THEN Returned(procs, j)
                  ELSE [procs EXCEPT ![j] = [proc EXCEPT !.pc = c.pc]]
        /\ events' = [ev EXCEPT ![j] = Append(@, Terminal(proc).event)]
        /\ svc' = c.svc
        /\ browsers' = c.browsers
        /\ jobs' = IF j \in DOMAIN jobs THEN [jobs EXCEPT ![j].status = Terminal(proc).status]
                 ELSE jobs

\* a send to the first contact only (a faulty variant)
SendsToFirstOnly(contacts, shot) == <<[to |-> contacts[1], attachment |-> shot]>>

\* contacts.map(contact => sendDispatchNotification(contact, event,
\* facilityName, screenshotPath)): one send per contact, all started at once
SendsStarted(contacts, shot) ==
    [i \in DOMAIN contacts |-> [to |-> contacts[i], attachment |-> shot]]

\* the emailFailed events of the sends that were rejected, in contact order
RECURSIVE EmailFailedEvents(_, _, _)
EmailFailedEvents(contacts, failed, i) ==
    IF i > Len(contacts) THEN <<>>
    ELSE (IF i \in failed THEN <<"emailFailed:" \o contacts[i]>> ELSE <<>>)
         \o EmailFailedEvents(contacts, failed, i + 1)

\* processFacility after the capture step: no contacts (noContactsFound and
\* the job completes) or the sends start
AfterCapture(j, br, shot, own) ==
    LET proc == [procs[j] EXCEPT !.shot = shot, !.ownFault = own]
    IN  IF proc.contacts = <<>>
        THEN Complete(j, proc, [events EXCEPT ![j] = Append(@, "noContactsFound")], br)
        ELSE /\ procs' = [procs EXCEPT ![j] = [proc EXCEPT !.pc = "send",
                                                          !.sends = SendsStarted(proc.contacts, shot)]]
             /\ browsers' = br
             /\ UNCHANGED <<svc, jobs, events>>

NewSession == [pageOpen |-> FALSE, authed |-> FALSE]

\* initialize(): chromium.launch resolved: this.browser is set and
\* newContext is called
Launched(j) ==
    /\ j \in DOMAIN procs
    /\ procs[j].pc = "launch"
    /\ browsers' = (j :> NewSession) @@ browsers
    /\ svc' = [svc EXCEPT !.browser = j]
    /\ procs' = [procs EXCEPT ![j].pc = "newPage"]
    /\ lastCall' = NoCall
    /\ UNCHANGED <<now, jobCounter, jobs, events, scheduled, ledgerVars, monitorVars, otherVars>>

\* initialize(): newContext and newPage resolved on the browser this job
\* launched (this.context, this.page are set), then captureUsage starts:
\* login() unless isLoggedIn; they reject when that browser has been closed
PageCreated(j) ==
    /\ j \in DOMAIN procs
    /\ procs[j].pc = "newPage"
    /\ IF j \in DOMAIN browsers
       THEN /\ browsers' = [browsers EXCEPT ![j].pageOpen = TRUE]
            /\ svc' = [svc EXCEPT !.context = j, !.page = j]
            /\ procs' = [procs EXCEPT ![j].pc = IF svc.isLoggedIn THEN "capture" ELSE "login"]
            /\ UNCHANGED <<jobs, events>>
       ELSE AfterCapture(j, browsers, NoShot, FALSE)
    /\ lastCall' = NoCall
    /\ UNCHANGED <<now, jobCounter, scheduled, ledgerVars, monitorVars, otherVars>>

\* login() on this.page: the form is submitted and isLoggedIn is set, or the
\* portal refuses (login throws, captureUsage lets it through, processFacility
\* logs it); on a page that is null or closed it throws as well
LoginDone(j, ok) ==
    /\ j \in DOMAIN procs
    /\ procs[j].pc = "login"
    /\ IF ~Usable(svc.page)
       THEN AfterCapture(j, browsers, NoShot, FALSE)
       ELSE IF ok
            THEN /\ browsers' = [browsers EXCEPT ![svc.page].authed = TRUE]
                 /\ svc' = [svc EXCEPT !.isLoggedIn = TRUE]
                 /\ procs' = [procs EXCEPT ![j].pc = "capture"]
                 /\ UNCHANGED <<jobs, events>>
            ELSE AfterCapture(j, browsers, NoShot, TRUE)
    /\ lastCall' = NoCall
    /\ UNCHANGED <<now, jobCounter, scheduled, ledgerVars, monitorVars, otherVars>>

\* captureUsage on this.page: the facility is searched for, its usage view
\* opened, hasUsageData() checked and the screenshot taken.  Any error (the
\* page is null or closed, or the search field is missing because this page
\* was never logged in) is caught and the result is null; so it is when the
\* final hasUsageData() finds no data
Captured(j, hasData) ==
    /\ j \in DOMAIN procs
    /\ procs[j].pc = "capture"
    /\ IF Usable(svc.page) /\ browsers[svc.page].authed
       THEN IF hasData
            THEN AfterCapture(j, browsers, PathShot(procs[j].facility), FALSE)
            ELSE AfterCapture(j, browsers, NullShot, TRUE)
       ELSE AfterCapture(j, browsers, NullShot, FALSE)
    /\ lastCall' = NoCall
    /\ UNCHANGED <<now, jobCounter, scheduled, ledgerVars, monitorVars, otherVars>>

\* Promise.allSettled(emailPromises) resolved: the sends to the contacts in
\* `failed` were rejected (each caught, emailFailed emitted), the others sent
Sent(j, failed) ==
    /\ j \in DOMAIN procs
    /\ procs[j].pc = "send"
    /\ failed \subseteq DOMAIN procs[j].contacts
    /\ Complete(j, [procs[j] EXCEPT !.failed = failed],
                [events EXCEPT ![j] = @ \o EmailFailedEvents(procs[j].contacts, failed, 1)],
                browsers)
    /\ lastCall' = NoCall
    /\ UNCHANGED <<now, jobCounter, scheduled, ledgerVars, monitorVars, otherVars>>

\* close(): page.close() and context.close() resolved; this.page = null,
\* this.context = null
ClosePageDone(j) ==
    /\ j \in DOMAIN procs
    /\ procs[j].pc = "closePage"
    /\ LET c == CloseFromBrowser([svc EXCEPT !.page = NoSession, !.context = NoSession], browsers)
       IN  /\ procs' = IF c.pc = "done" THEN Returned(procs, j) ELSE [procs EXCEPT ![j].pc = c.pc]
           /\ svc' = c.svc
           /\ browsers' = c.browsers
    /\ lastCall' = NoCall
    /\ UNCHANGED <<now, jobCounter, jobs, events, scheduled, ledgerVars, monitorVars, otherVars>>

\* close(): browser.close() resolved; this.browser = null, isLoggedIn = false
CloseBrowserDone(j) ==
    /\ j \in DOMAIN procs
    /\ procs[j].pc = "closeBrowser"
    /\ procs' = Returned(procs, j)
    /\ svc' = [svc EXCEPT !.browser = NoSession, !.isLoggedIn = FALSE]
    /\ lastCall' = NoCall
    /\ UNCHANGED <<now, jobCounter, jobs, browsers, events, scheduled, ledgerVars, monitorVars, otherVars>>

\* getActiveJobs(): the jobs whose status is 'pending'
GetActiveJobs == {j \in DOMAIN jobs : jobs[j].status = "pending"}

\* getStatistics(): the number of jobs in each status
GetStatistics ==
    [st \in {"pending", "running", "completed", "failed"} |->
        Cardinality({j \in DOMAIN jobs : jobs[j].status = st})]

AllJobIds ==
    {JobId(prefix, n, f) : prefix \in {"job", "immediate"},
                           n \in 1..MaxJobs, f \in FacilityNames}

NextScheduler ==
    \/ \E d \in (0 - 1)..MaxAhead, facs \in FacilityLists(MaxFacilities) :
          ScheduleDispatchNotifications(d, facs)
    \/ Tick
    \/ \E id \in AllJobIds \cup {UnknownJobId} : CancelJob(id)
    \/ \E j \in AllJobIds : Launched(j)
    \/ \E j \in AllJobIds : PageCreated(j)
    \/ \E j \in AllJobIds, ok \in BOOLEAN : LoginDone(j, ok)
    \/ \E j \in AllJobIds, hasData \in BOOLEAN : Captured(j, hasData)
    \/ \E j \in AllJobIds : Sent(j, {})
    \/ \E j \in AllJobIds : ClosePageDone(j)
    \/ \E j \in AllJobIds : CloseBrowserDone(j)

(***************************************************************************)
(* ScreenshotService on its own: one service object whose methods are      *)
(* called one after the other, each awaited before the next (as its tests  *)
(* do).  The portal is the environment: it accepts or refuses the login,   *)
(* shows or hides rows, buttons and usage data, and any call on the page   *)
(* can raise (timeout, navigation error, page crashed).                    *)
(***************************************************************************)
\* the fields of a new ScreenshotService; pageAuthed tells whether the portal
\* session of the current page is logged in, url where the page is
NewService == [browser |-> FALSE, context |-> FALSE, page |-> FALSE,
               isLoggedIn |-> FALSE, pageAuthed |-> FALSE, url |-> "none"]

\* no method running, none has returned yet; `submitted` tells whether the
\* call has sent the login form
NoCallYet == [op |-> "none", pc |-> "idle", contact |-> FALSE, result |-> "none",
              finalCheck |-> "none", files |-> {}, switched |-> FALSE, submitted |-> FALSE]

Started(op, pc, contact) == [NoCallYet EXCEPT !.op = op, !.pc = pc, !.contact = contact]

\* the method returns r or rejects with r
Settled(c, r) == [c EXCEPT !.pc = "idle", !.result = r]

Raised == {"notInitialized", "loginError", "launchError"}

InitCapture ==
    /\ service = NewService
    /\ call = NoCallYet

\* initialize(): mkdir, launch, newContext, newPage; browser, context and
\* page are overwritten, isLoggedIn is left as it is
Initialize(ok) ==
    /\ call.pc = "idle"
    /\ IF ok
       THEN /\ service' = [service EXCEPT !.browser = TRUE, !.context = TRUE, !.page = TRUE,
                                          !.pageAuthed = FALSE, !.url = "blank"]
            /\ call' = Settled(Started("initialize", "idle", FALSE), "void")
       ELSE /\ UNCHANGED service
            /\ call' = Settled(Started("initialize", "idle", FALSE), "launchError")
    /\ UNCHANGED <<ledgerVars, monitorVars, schedVars, parserVars, saveVars, restVars>>

\* login() after its two guards: the form is submitted; the portal lands on
\* `landing` or stays on the login page / the page raises, and then the error
\* screenshot is taken and the error rethrown
LoginSubmitted(c, landing) ==
    IF landing \in {"admin", "dashboard"}
    THEN [svc |-> [service EXCEPT !.isLoggedIn = TRUE, !.pageAuthed = TRUE, !.url = landing],
          call |-> [c EXCEPT !.submitted = TRUE], ok |-> TRUE]
    ELSE [svc |-> [service EXCEPT !.url = "login"],
          call |-> [c EXCEPT !.files = @ \cup {"login-error"}, !.submitted = TRUE],
          ok |-> FALSE]

Landings == {"admin", "dashboard", "login"}

\* login() without the test on isLoggedIn (a faulty variant)
LoginAlwaysSubmits(landing) ==
    /\ call.pc = "idle"
    /\ LET c == Started("login", "idle", FALSE)
       IN  IF ~service.page
           THEN /\ call' = Settled(c, "notInitialized")
                /\ UNCHANGED service
           ELSE LET l == LoginSubmitted(c, landing)
                IN  /\ service' = l.svc
                    /\ call' = Settled(l.call, IF l.ok THEN "void" ELSE "loginError")
    /\ UNCHANGED <<ledgerVars, monitorVars, schedVars, parserVars, saveVars, restVars>>

\* login()
Login(landing) ==
    /\ call.pc = "idle"
    /\ LET c == Started("login", "idle", FALSE)
       IN  IF ~service.page
           THEN /\ call' = Settled(c, "notInitialized")
                /\ UNCHANGED service
           ELSE IF service.isLoggedIn
                THEN /\ call' = Settled(c, "void")
                     /\ UNCHANGED service
                ELSE LET l == LoginSubmitted(c, landing)
                     IN  /\ service' = l.svc
                         /\ call' = Settled(l.call, IF l.ok THEN "void" ELSE "loginError")
    /\ UNCHANGED <<ledgerVars, monitorVars, schedVars, parserVars, saveVars, restVars>>

\* close()
Close ==
    /\ call.pc = "idle"
    /\ service' = NewService
    /\ call' = Settled(Started("close", "idle", FALSE), "void")
    /\ UNCHANGED <<ledgerVars, monitorVars, schedVars, parserVars, saveVars, restVars>>

\* captureUsage(facilityName, contactName?, dispatchType?) up to its try
\* block: `if (!this.page) throw`, `if (!this.isLoggedIn) await this.login()`
CaptureUsage(contact) ==
    /\ call.pc = "idle"
    /\ IF ~service.page
       THEN call' = Settled(Started("captureUsage", "idle", contact), "notInitialized")
       ELSE call' = Started("captureUsage",
                            IF service.isLoggedIn THEN "impersonate" ELSE "login", contact)
    /\ UNCHANGED <<service, ledgerVars, monitorVars, schedVars, parserVars, saveVars, restVars>>

\* captureUsage: its login() settled; a rejection is not caught
CaptureLoggedIn(landing) ==
    /\ call.op = "captureUsage" /\ call.pc = "login"
    /\ LET l == LoginSubmitted(call, landing)
       IN  /\ service' = l.svc
           /\ call' = IF l.ok THEN [l.call EXCEPT !.pc = "impersonate"]
                      ELSE Settled(l.call, "loginError")
    /\ UNCHANGED <<ledgerVars, monitorVars, schedVars, parserVars, saveVars, restVars>>

\* the catch block rethrowing what it caught (a faulty variant)
CaptureCaughtRethrowing(c) == Settled([c EXCEPT !.files = @ \cup {"error"}], "captureError")

\* the catch block of captureUsage: debugScreenshot(`error-...`), which does
\* not raise, and `return null`
CaptureCaught(c) == Settled([c EXCEPT !.files = @ \cup {"error"}], "null")

ImpersonateOutcomes == {"searchFailed", "noRow", "noButton", "switched", "raised", "pageRaised"}

\* captureUsage: the contact's view.  Skipped without a contact name or on
\* the Dashboard; else searchFacility, the contact's row, the impersonate
\* button.  searchFailed: searchFacility returned false and the capture goes
\* on in the view it is in; noRow, noButton, raised: return null; pageRaised:
\* page.url() or searchFacility's guards raised, which the outer catch takes
Impersonated(outcome) ==
    /\ call.op = "captureUsage" /\ call.pc = "impersonate"
    /\ IF ~call.contact \/ service.url = "dashboard" \/ outcome = "searchFailed"
       THEN /\ call' = [call EXCEPT !.pc = "waits"]
            /\ UNCHANGED service
       ELSE CASE outcome = "switched" /\ service.pageAuthed ->
                    /\ call' = [call EXCEPT !.pc = "waits", !.switched = TRUE]
                    /\ service' = [service EXCEPT !.url = "home"]
              [] outcome = "noRow" ->
                    /\ call' = Settled([call EXCEPT !.files = @ \cup {"search-debug"}], "null")
                    /\ UNCHANGED service
              [] outcome = "pageRaised" ->
                    /\ call' = CaptureCaught(call)
                    /\ UNCHANGED service
              [] OTHER ->
                    /\ call' = Settled(call, "null")
                    /\ UNCHANGED service
    /\ UNCHANGED <<ledgerVars, monitorVars, schedVars, parserVars, saveVars, restVars>>

\* captureUsage: the Dashboard link, the registration dropdown, the program
\* tab and the loading overlays: each in a try block of its own, so that a
\* failure there is logged and the capture goes on
Waited(toDashboard) ==
    /\ call.op = "captureUsage" /\ call.pc = "waits"
    /\ call' = [call EXCEPT !.pc = "validate"]
    /\ service' = IF toDashboard /\ service.url = "home"
                  THEN [service EXCEPT !.url = "dashboard"] ELSE service
    /\ UNCHANGED <<ledgerVars, monitorVars, schedVars, parserVars, saveVars, restVars>>

\* captureUsage: `const hasData = await hasUsageData()`, and the debug
\* screenshot when it is false.  The portal shows usage data only to a
\* logged-in session
Validated(hasData) ==
    /\ call.op = "captureUsage" /\ call.pc = "validate"
    /\ hasData => service.pageAuthed
    /\ call' = [call EXCEPT !.pc = "screenshot",
                            !.finalCheck = IF hasData THEN "passed" ELSE "failed",
                            !.files = IF hasData THEN @ ELSE @ \cup {"no-data"}]
    /\ UNCHANGED <<service, ledgerVars, monitorVars, schedVars, parserVars, saveVars, restVars>>

\* captureUsage: an awaited page operation of the try block that is not in
\* a try block of its own raised (the page or the browser went away, say)
CaptureRaised ==
    /\ call.op = "captureUsage" /\ call.pc \in {"waits", "validate"}
    /\ call' = CaptureCaught(call)
    /\ UNCHANGED <<service, ledgerVars, monitorVars, schedVars, parserVars, saveVars, restVars>>

\* the value returned after the screenshot, always the path (a faulty variant)
CaptureResultAlwaysPath(hasData) == "path"

\* `if (!hasData) return null; return filepath`
CaptureResult(hasData) == IF hasData THEN "path" ELSE "null"

\* captureUsage: page.screenshot settled; when it raised the catch block runs
Screenshot(ok) ==
    /\ call.op = "captureUsage" /\ call.pc = "screenshot"
    /\ call' = IF ok
               THEN Settled([call EXCEPT !.files = @ \cup {"main"}],
                            CaptureResult(call.finalCheck = "passed"))
               ELSE CaptureCaught(call)
    /\ UNCHANGED <<service, ledgerVars, monitorVars, schedVars, parserVars, saveVars, restVars>>

NextCapture ==
    \/ \E ok \in BOOLEAN : Initialize(ok)
    \/ \E landing \in Landings : Login(landing)
    \/ Close
    \/ \E contact \in BOOLEAN : CaptureUsage(contact)
    \/ \E landing \in Landings : CaptureLoggedIn(landing)
    \/ \E outcome \in ImpersonateOutcomes : Impersonated(outcome)
    \/ \E toDashboard \in BOOLEAN : Waited(toDashboard)
    \/ \E hasData \in BOOLEAN : Validated(hasData)
    \/ CaptureRaised
    \/ \E ok \in BOOLEAN : Screenshot(ok)

(***************************************************************************)
(* CPowerEmailParser.  Header texts are sequences of chunks (a word, a     *)
(* blank, an address part); toLowerCase works chunk by chunk and includes  *)
(* looks for the needle as a run of consecutive chunks.                    *)
(***************************************************************************)
\* String.prototype.toLowerCase, on the chunks used here
LowerOf(chunk) ==
    CASE chunk = "CPower" -> "cpower"
      [] chunk = "Dispatch" -> "dispatch"
      [] chunk = "DISPATCH" -> "dispatch"
      [] chunk = "Dispatched" -> "dispatched"
      [] chunk = "Event" -> "event"
      [] chunk = "EVENT" -> "event"
      [] chunk = "Curtailment" -> "curtailment"
      [] chunk = "Weekly" -> "weekly"
      [] chunk = "Re:" -> "re:"
      [] OTHER -> chunk

ToLowerCase(text) == [i \in DOMAIN text |-> LowerOf(text[i])]

\* the chunks i..j of text, joined
RECURSIVE Joined(_, _, _)
Joined(text, i, j) == IF i > j THEN "" ELSE text[i] \o Joined(text, i + 1, j)

\* String.prototype.includes
Includes(text, needle) ==
    \E i \in 1..Len(text) : \E j \in i..Len(text) : Joined(text, i, j) = needle

\* parsed.from?.text || ''
ParserFroms ==
    { <<"CPower", "Dispatch", "@", "cpowerny.com">>,
      <<"cpower", "dispatch", "@", "cpowerny.com">>,
      <<"alerts", "@", "cpower", ".com">>,
      <<"dispatch", "@", "example.com">>,
      <<>> }

\* parsed.subject || ''
ParserSubjects ==
    { <<"CPower", " ", "Dispatched", " ", "Event">>,
      <<"DISPATCH", " ", "EVENT", " ", "notice">>,
      <<"Re:", " ", "Curtailment">>,
      <<"Dispatch", "  ", "event">>,
      <<"Weekly", " ", "report">>,
      <<>> }

\* isDispatchEmail with the subject test alone (a faulty variant)
IsDispatchEmailBySubject(subject, from) ==
    \/ Includes(ToLowerCase(subject), "dispatched event")
    \/ Includes(ToLowerCase(subject), "dispatch event")
    \/ Includes(ToLowerCase(subject), "curtailment")

\* isDispatchEmail(subject, from)
IsDispatchEmailText(subject, from) ==
    /\ Includes(ToLowerCase(from), "cpowerdispatch")
    /\ \/ Includes(ToLowerCase(subject), "dispatched event")
       \/ Includes(ToLowerCase(subject), "dispatch event")
       \/ Includes(ToLowerCase(subject), "curtailment")

\* what follows a time label in the body: nothing (the label is missing), a
\* text the pattern of parseEventTime does not match, or a text it matches:
\* "hh:mm AM|PM (TZ) On MM/DD/YYYY" with any digits
NoLabel == [shape |-> "missing", hh |-> 0, pm |-> FALSE, mo |-> 0, dd |-> 0]
NoMatch == [shape |-> "nomatch", hh |-> 0, pm |-> FALSE, mo |-> 0, dd |-> 0]
TimeText(hh, pm, mo, dd) == [shape |-> "match", hh |-> hh, pm |-> pm, mo |-> mo, dd |-> dd]

TimeTexts ==
    { NoLabel, NoMatch, TimeText(5, TRUE, 6, 24), TimeText(7, TRUE, 6, 24),
      TimeText(13, TRUE, 6, 24), TimeText(5, TRUE, 13, 24) }

\* new Date("MM/DD/YYYY hh:mm AM|PM"): the local time it denotes, in minutes
\* of the year, or Invalid Date when, as in V8, the hour before AM|PM is not
\* 0..12 or the month not 1..12 (a day up to 31 rolls over into the next
\* month)
InvalidDate == [valid |-> FALSE, time |-> 0]
NewDate(t) ==
    IF t.hh \in 0..12 /\ t.mo \in 1..12 /\ t.dd \in 1..31
    THEN [valid |-> TRUE,
          time |-> ((t.mo * 31 + t.dd) * 24 + (t.hh % 12) + (IF t.pm THEN 12 ELSE 0)) * 60]
    ELSE InvalidDate

NullEvent == [kind |-> "null", startTime |-> InvalidDate, endTime |-> InvalidDate]
NotParsed == [kind |-> "none", startTime |-> InvalidDate, endTime |-> InvalidDate]

\* parseEventTime(timeStr): null when the pattern does not match
ParseEventTime(t) == IF t.shape = "match" THEN [ok |-> TRUE, date |-> NewDate(t)]
                     ELSE [ok |-> FALSE, date |-> InvalidDate]

\* extractEventTimes(html) and extractDispatchDetails around it
ExtractEventTimes(body) ==
    IF body.start.shape = "missing" THEN NullEvent
    ELSE IF body.end.shape = "missing" THEN NullEvent
    ELSE IF ~ParseEventTime(body.start).ok \/ ~ParseEventTime(body.end).ok THEN NullEvent
    ELSE [kind |-> "event", startTime |-> ParseEventTime(body.start).date,
          endTime |-> ParseEventTime(body.end).date]

\* the raw emails: header texts, the two time labels of the body, and
\* whether simpleParser rejects the text
ParserEmails ==
    [from : ParserFroms, subject : ParserSubjects, start : TimeTexts, end : TimeTexts,
     malformed : BOOLEAN]

\* parseEmailContent(rawEmail)
ParseEmailContentOf(e) ==
    IF e.malformed THEN NullEvent
    ELSE IF ~IsDispatchEmailText(e.subject, e.from) THEN NullEvent
    ELSE ExtractEventTimes(e)

InitParser ==
    /\ email = CHOOSE e \in ParserEmails : TRUE
    /\ parsed = NotParsed

InitParserAny ==
    /\ email \in ParserEmails
    /\ parsed = NotParsed

ParseEmailContent ==
    /\ parsed = NotParsed
    /\ parsed' = ParseEmailContentOf(email)
    /\ UNCHANGED <<email, ledgerVars, monitorVars, schedVars, captureVars, saveVars, restVars>>

NextParser == ParseEmailContent

(***************************************************************************)
(* ProcessedEmailTracker.save, call by call.  markAsProcessed is called by *)
(* processMessage of every checkForNewEmails invocation in flight, and the *)
(* invocations do not wait for each other; fs.writeFile opens the temp     *)
(* path with flag 'w' (create or truncate), writes the text and closes,    *)
(* each an await of its own, and fs.rename follows.                        *)
(***************************************************************************)
MaxSavers == 2

Savers == 1..MaxSavers

\* what a path names: nothing, or a file with the entries written into it
\* and whether its text is one complete JSON array
Absent == [exists |-> FALSE, data |-> {}, complete |-> FALSE]
Truncated == [exists |-> TRUE, data |-> {}, complete |-> FALSE]

\* a caller not inside markAsProcessed; `at` is the path that names the file
\* the call has open while it writes
IdleSave == [pc |-> "idle", snapshot |-> {}, at |-> "none", result |-> "none"]

\* the content each message id is recorded with
SaveRaw(id) ==
    CHOOSE r \in LedgerRaws :
        r.body = (CASE id = UidMessageId(1) -> 1 [] id = UidMessageId(2) -> 3 [] OTHER -> 2)

InitSave ==
    /\ disk = [tmp |-> Absent, ledger |-> Absent]
    /\ saves = [s \in Savers |-> IdleSave]

\* markAsProcessed up to the first await of save(): the entry is set,
\* Array.from and JSON.stringify take the snapshot, writeFile is called
SaveStarted(s, id) ==
    /\ saves[s].pc = "idle"
    /\ processed' = ProcessedSet(processed, id, SaveRaw(id))
    /\ saves' = [saves EXCEPT ![s] = [IdleSave EXCEPT !.pc = "open",
                                                     !.snapshot = Entries(processed')]]
    /\ UNCHANGED <<disk, tmpFile, ledgerFile, lastOp, everIds, everHashes,
                   monitorVars, schedVars, captureVars, parserVars, restVars>>

\* writeFile: open(tempPath, 'w') creates the file or truncates the one the
\* path names
TempOpened(s) ==
    /\ saves[s].pc = "open"
    /\ disk' = [disk EXCEPT !.tmp = Truncated]
    /\ saves' = [saves EXCEPT ![s].pc = "write", ![s].at = "tmp"]
    /\ UNCHANGED <<ledgerVars, monitorVars, schedVars, captureVars, parserVars, restVars>>

\* the text of `entries` written from offset 0 into a file: over a shorter
\* or no text it is the whole text; over a longer text the tail of that one
\* stays behind it (a later snapshot holds the earlier one and is longer)
Overwritten(file, entries) ==
    [exists |-> TRUE, data |-> file.data \cup entries, complete |-> file.data \subseteq entries]

\* the disk after the text is written into the file the call has open:
\* the file is the one the temp path names, or it has been renamed to the
\* ledger path since, or it has been replaced there and is no longer named
Written(d, at, entries) ==
    CASE at = "tmp" -> [d EXCEPT !.tmp = Overwritten(d.tmp, entries)]
      [] at = "ledger" -> [d EXCEPT !.ledger = Overwritten(d.ledger, entries)]
      [] OTHER -> d

\* writeFile: the write and the close are done, rename(tempPath, filePath)
\* is called
TempWritten(s) ==
    /\ saves[s].pc = "write"
    /\ disk' = Written(disk, saves[s].at, saves[s].snapshot)
    /\ saves' = [saves EXCEPT ![s].pc = "rename", ![s].at = "none"]
    /\ UNCHANGED <<ledgerVars, monitorVars, schedVars, captureVars, parserVars, restVars>>

\* where the files that calls have open are after a rename of the temp path
\* onto the ledger path
Moved(at) == CASE at = "tmp" -> "ledger" [] at = "ledger" -> "gone" [] OTHER -> at

\* rename(tempPath, filePath): the ledger path names the file the temp path
\* named, or ENOENT when the temp path names nothing (another save renamed
\* it) and markAsProcessed rejects
TempRenamed(s) ==
    /\ saves[s].pc = "rename"
    /\ IF disk.tmp.exists
       THEN /\ disk' = [tmp |-> Absent, ledger |-> disk.tmp]
            /\ saves' = [t \in Savers |->
                            IF t = s THEN [IdleSave EXCEPT !.result = "saved"]
                            ELSE [saves[t] EXCEPT !.at = Moved(@)]]
       ELSE /\ saves' = [saves EXCEPT ![s] = [IdleSave EXCEPT !.result = "ENOENT"]]
            /\ UNCHANGED disk
    /\ UNCHANGED <<ledgerVars, monitorVars, schedVars, captureVars, parserVars, restVars>>

\* the process dies and is started again: the calls in flight are gone, the
\* new tracker's map is empty, the disk is as it was
Crash ==
    /\ \E s \in Savers : saves[s].pc # "idle"
    /\ saves' = [s \in Savers |-> IdleSave]
    /\ processed' = EmptyMap
    /\ UNCHANGED <<disk, tmpFile, ledgerFile, lastOp, everIds, everHashes,
                   monitorVars, schedVars, captureVars, parserVars, restVars>>

\* initialize() on the ledger path: ENOENT, or JSON.parse of a text that is
\* not one complete array throws, and either way the map is left alone;
\* else the entries are loaded (all of this run, none to clean)
Reloaded ==
    /\ \A s \in Savers : saves[s].pc = "idle"
    /\ disk.ledger.exists
    /\ processed' = IF disk.ledger.complete
                    THEN InitializeOf(processed, FileOf(disk.ledger.data)).processed
                    ELSE processed
    /\ UNCHANGED <<disk, saves, tmpFile, ledgerFile, lastOp, everIds, everHashes,
                   monitorVars, schedVars, captureVars, parserVars, restVars>>

NextSave ==
    \/ \E s \in Savers, id \in LedgerIds : SaveStarted(s, id)
    \/ \E s \in Savers : TempOpened(s)
    \/ \E s \in Savers : TempWritten(s)
    \/ \E s \in Savers : TempRenamed(s)
    \/ Crash
    \/ Reloaded

(***************************************************************************)
(* hasUsageData, the data-readiness check of captureUsage.  A page is the  *)
(* textContent of its text elements in document order, whether it holds a  *)
(* chart element, and whether its locators raise.  Texts are sequences of  *)
(* characters.                                                             *)
(***************************************************************************)
MaxElements == 2

ZeroReading == <<"0", ".", "0", "0", " ", "k", "W", "h">>
BareUnit == <<"k", "W", "h">>
PlainReading == <<"5", ",", "6", "0", "6", "k", "W", " ", "@", " ", "1", ":", "0", "0", " ", "P", "M">>
CentsReading == <<"1", ",", "2", "0", "0", ".", "0", "0", " ", "k", "W", " ", "@", " ", "1", ":", "1", "5", " ", "P", "M">>
RoundReading == <<"5", ",", "6", "0", "0", " ", "k", "W", " ", "@", " ", "9", ":", "3", "0", " ", "A", "M">>
LoadLabel == <<"L", "o", "a", "d", " ", "E", "s", "t", "i", "m", "a", "t", "e", " ", "(", "k", "W", ")">>

ElementTexts == {ZeroReading, BareUnit, PlainReading, CentsReading, RoundReading, LoadLabel}

DigitChars == {"0", "1", "2", "3", "4", "5", "6", "7", "8", "9"}
SpaceChars == {" "}

\* needle occurs in text from position i on
OccursAt(text, needle, i) ==
    /\ i >= 1
    /\ i + Len(needle) - 1 <= Len(text)
    /\ SubSeq(text, i, i + Len(needle) - 1) = needle

\* String.prototype.includes
TextIncludes(text, needle) == \E i \in 1..Len(text) : OccursAt(text, needle, i)

\* /\d{1,3}(,\d{3})*(\.\d+)?\s*kW/ and the same with MW, searched anywhere in
\* the text (the locator is built from pattern.source, so without the i
\* flag).  Every match ends in a digit, white space and the unit, and one
\* digit before the white space is already a match of \d{1,3}; so the text
\* matches exactly when a digit, then white space, then the unit occur in it.
MatchesPower(text, unit) ==
    \E i \in 1..Len(text) :
        /\ text[i] \in DigitChars
        /\ \E j \in (i + 1)..Len(text) :
              /\ \A k \in (i + 1)..(j - 1) : text[k] \in SpaceChars
              /\ OccursAt(text, unit, j)

\* /Load Estimate.*kW/
MatchesLoadEstimate(text) ==
    \E i \in 1..Len(text) :
        /\ OccursAt(text, <<"L", "o", "a", "d", " ", "E", "s", "t", "i", "m", "a", "t", "e">>, i)
        /\ \E j \in (i + 13)..Len(text) : OccursAt(text, <<"k", "W">>, j)

UsagePatterns == {"kW", "MW", "LoadEstimate"}

MatchesPattern(text, pattern) ==
    CASE pattern = "kW" -> MatchesPower(text, <<"k", "W">>)
      [] pattern = "MW" -> MatchesPower(text, <<"M", "W">>)
      [] pattern = "LoadEstimate" -> MatchesLoadEstimate(text)

\* page.locator(`text=/${pattern.source}/`).all(): the elements whose text matches
Located(elements, pattern) == SelectSeq(elements, LAMBDA t : MatchesPattern(t, pattern))

\* the test on the first match: not "0.00 kWh or similar"
Genuine(firstMatch) ==
    /\ firstMatch # <<>>
    /\ ~TextIncludes(firstMatch, <<"0", ".", "0", "0">>)
    /\ ~TextIncludes(firstMatch, <<"0", " ", "k", "W">>)
    /\ firstMatch # BareUnit

\* hasUsageData(): some pattern's first match is genuine, or else a chart
\* element is there; false when a locator raises
HasUsageData(p) ==
    IF p.raises THEN FALSE
    ELSE \/ \E pattern \in UsagePatterns :
              /\ Located(p.elements, pattern) # <<>>
              /\ Genuine(Head(Located(p.elements, pattern)))
         \/ p.chart

RECURSIVE ElementLists(_)
ElementLists(n) ==
    IF n = 0 THEN {<<>>}
    ELSE ElementLists(n - 1) \cup
         {Append(l, t) : l \in {x \in ElementLists(n - 1) : Len(x) = n - 1}, t \in ElementTexts}

Pages == [elements : ElementLists(MaxElements), chart : BOOLEAN, raises : BOOLEAN]

Unchecked == [checked |-> FALSE, value |-> FALSE]

InitReadiness ==
    /\ shown = [elements |-> <<>>, chart |-> FALSE, raises |-> FALSE]
    /\ ready = Unchecked

InitReadinessAny ==
    /\ shown \in Pages
    /\ ready = Unchecked

CheckUsageData ==
    /\ ~ready.checked
    /\ ready' = [checked |-> TRUE, value |-> HasUsageData(shown)]
    /\ UNCHANGED <<shown, ledgerVars, monitorVars, schedVars, captureVars, parserVars, saveVars, reconnVars, lateVars>>

NextReadiness == CheckUsageData

(***************************************************************************)
(* EmailMonitor's connection over time.  The mail server goes down and     *)
(* comes back; a connection whose socket was lost stays lost.  The polling *)
(* interval is taken to be longer than a check, so that one check is in    *)
(* flight at a time; the messages a fetch finds are left out.              *)
(***************************************************************************)
MaxFaults == 2
TickWrap == 4

\* the errors openBox/search reject with on a lost connection: code
\* ECONNRESET, a message that includes 'connection', or neither
FetchErrors == {"ECONNRESET", "connection", "other"}

\* err.message?.includes('connection') || err.code === 'ECONNRESET'
IsConnectionError(err) == err \in {"ECONNRESET", "connection"}

\* after connect() and startMonitoring()
InitReconnect ==
    /\ net = [server |-> "up", faults |-> 0]
    /\ link = "open"
    /\ poll = [pc |-> "idle", ticks |-> 0]
    /\ seen = [failed |-> FALSE, fetched |-> FALSE, unnoticed |-> FALSE]

\* the server becomes unreachable; the socket of a live connection is lost
ServerFault ==
    /\ net.server = "up"
    /\ net.faults < MaxFaults
    /\ net' = [server |-> "down", faults |-> net.faults + 1]
    /\ link' = IF link = "open" THEN "lost" ELSE link
    /\ seen' = [seen EXCEPT !.fetched = FALSE]
    /\ UNCHANGED <<poll, ledgerVars, monitorVars, schedVars, captureVars, parserVars, saveVars, readyVars, lateVars>>

\* the server is reachable again
ServerRecover ==
    /\ net.server = "down"
    /\ net' = [net EXCEPT !.server = "up"]
    /\ UNCHANGED <<link, poll, seen, ledgerVars, monitorVars, schedVars, captureVars, parserVars, saveVars, readyVars, lateVars>>

\* the setInterval callback: checkForNewEmails() returns at once without a
\* connection, else calls openBox; ticks counts the firings modulo TickWrap
IntervalTick ==
    /\ poll.pc = "idle"
    /\ poll' = [pc |-> IF link = "none" THEN "idle" ELSE "fetch",
                ticks |-> (poll.ticks + 1) % TickWrap]
    /\ UNCHANGED <<net, link, seen, ledgerVars, monitorVars, schedVars, captureVars, parserVars, saveVars, readyVars, lateVars>>

\* openBox and search settle: the unread mail is fetched, or they reject
\* with err; the catch block calls reconnect(), which calls
\* connection.end(), only for a connection error
FetchDone(err) ==
    /\ poll.pc = "fetch"
    /\ IF link = "open" /\ net.server = "up"
       THEN /\ err = "none"
            /\ seen' = [seen EXCEPT !.fetched = TRUE]
            /\ poll' = [poll EXCEPT !.pc = "idle"]
       ELSE /\ err \in FetchErrors
            /\ IF IsConnectionError(err)
               THEN /\ seen' = [seen EXCEPT !.failed = TRUE]
                    /\ poll' = [poll EXCEPT !.pc = "end"]
               ELSE /\ seen' = [seen EXCEPT !.unnoticed = TRUE]
                    /\ poll' = [poll EXCEPT !.pc = "idle"]
    /\ UNCHANGED <<net, link, ledgerVars, monitorVars, schedVars, captureVars, parserVars, saveVars, readyVars, lateVars>>

\* reconnect(): connection.end() settled (its error is ignored),
\* this.connection = null, connect() calls imaps.connect
EndDone ==
    /\ poll.pc = "end"
    /\ link' = "none"
    /\ poll' = [poll EXCEPT !.pc = "connect"]
    /\ UNCHANGED <<net, seen, ledgerVars, monitorVars, schedVars, captureVars, parserVars, saveVars, readyVars, lateVars>>

\* imaps.connect settles: this.connection is set when the server is
\* reachable; else connect() throws, reconnect() logs it and returns
ConnectDone ==
    /\ poll.pc = "connect"
    /\ link' = IF net.server = "up" THEN "open" ELSE link
    /\ poll' = [poll EXCEPT !.pc = "idle"]
    /\ UNCHANGED <<net, seen, ledgerVars, monitorVars, schedVars, captureVars, parserVars, saveVars, readyVars, lateVars>>

NextReconnect ==
    \/ ServerFault
    \/ ServerRecover
    \/ IntervalTick
    \/ \E err \in FetchErrors \cup {"none"} : FetchDone(err)
    \/ EndDone
    \/ ConnectDone

\* the timer keeps firing while monitoring is on, every awaited call
\* settles, and the server comes back after each fault
FairReconnect ==
    /\ WF_vars(IntervalTick)
    /\ WF_vars(\E err \in FetchErrors \cup {"none"} : FetchDone(err))
    /\ WF_vars(EndDone)
    /\ WF_vars(ConnectDone)
    /\ WF_vars(ServerRecover)

(***************************************************************************)
(* captureUsage: the registration dropdown.  A text is the sequence of its *)
(* phrases; the facility names and the program suffixes are one phrase     *)
(* each, so that === is equality and includes is TextIncludes.  An option  *)
(* of the dropdown is its value, text and title; registrationsToTry is     *)
(* kept as the positions of its entries in `options`, so that an option    *)
(* pushed twice shows as a position occurring twice.                       *)
(***************************************************************************)
MaxOptions == 2

HospitalName == <<"Rhode Island Hospital">>
PlantName == <<"Aaron Industries">>
RegisteredNames == {HospitalName, PlantName}

\* dispatchType: undefined, or the program named in the email
DispatchTypes == {<<>>, <<"RI ET">>, <<"Targeted", "Dispatch">>, <<"Capacity">>}

OptionTexts ==
    {HospitalName,
     <<"Rhode Island Hospital", "RI Energy", "Targeted">>,
     PlantName,
     <<"Aaron Industries", "Targeted">>,
     <<"Other Facility">>}
OptionTitles == {<<>>, HospitalName, PlantName}
OptionValues == {"101", "102"}
Options == [value : OptionValues, text : OptionTexts, title : OptionTitles]

RECURSIVE OptionLists(_)
OptionLists(n) ==
    IF n = 0 THEN {<<>>}
    ELSE OptionLists(n - 1) \cup
         {Append(l, o) : l \in {x \in OptionLists(n - 1) : Len(x) = n - 1}, o \in Options}

\* Array.prototype.filter, as the positions kept, in order
Positions(options, Keep(_)) ==
    SelectSeq([i \in 1..Len(options) |-> i], LAMBDA i : Keep(options[i]))

\* Array.prototype.find followed by `if (found) push(found)`: the first
\* position kept, if any
FirstPosition(options, Keep(_)) ==
    IF Positions(options, Keep) = <<>> THEN <<>> ELSE <<Head(Positions(options, Keep))>>

\* registrationsToTry.some(r => r.value === opt.value)
ValueListed(options, list, opt) == \E k \in 1..Len(list) : options[list[k]].value = opt.value

IsHospital(facilityName) == TextIncludes(facilityName, HospitalName)

\* the Rhode Island Hospital branch
HospitalBase(options) ==
    FirstPosition(options, LAMBDA opt : opt.text = HospitalName \/ opt.title = HospitalName)

HospitalTargeted(options, dispatchType) ==
    IF TextIncludes(dispatchType, <<"RI ET">>)
    THEN FirstPosition(options, LAMBDA opt : TextIncludes(opt.text, <<"RI Energy", "Targeted">>))
    ELSE <<>>

HospitalOthers(options, list) ==
    Positions(options, LAMBDA opt : /\ TextIncludes(opt.text, HospitalName)
                                    /\ ~ValueListed(options, list, opt))

\* the branch of every other facility
TargetedVariants(options, facilityName, dispatchType) ==
    IF TextIncludes(dispatchType, <<"RI ET">>) \/ TextIncludes(dispatchType, <<"Targeted">>)
    THEN Positions(options, LAMBDA opt :
             /\ TextIncludes(opt.text, facilityName)
             /\ \/ TextIncludes(opt.text, <<"Targeted">>)
                \/ TextIncludes(opt.text, <<"RI Energy", "Targeted">>))
    ELSE <<>>

BaseMatch(options, facilityName) ==
    FirstPosition(options, LAMBDA opt : opt.text = facilityName \/ opt.title = facilityName)

OtherMatches(options, facilityName, list) ==
    Positions(options, LAMBDA opt : /\ TextIncludes(opt.text, facilityName)
                                    /\ ~ValueListed(options, list, opt))

RegistrationsToTry(options, facilityName, dispatchType) ==
    IF IsHospital(facilityName)
    THEN LET first == HospitalBase(options) \o HospitalTargeted(options, dispatchType)
         IN  first \o HospitalOthers(options, first)
    ELSE LET first == TargetedVariants(options, facilityName, dispatchType)
                        \o BaseMatch(options, facilityName)
         IN  first \o OtherMatches(options, facilityName, first)

\* selectOption('#registrationDetails', value): the first option of the
\* dropdown that carries the value becomes the selected one
Selected(options, value) == CHOOSE i \in 1..Len(options) :
    /\ options[i].value = value
    /\ \A k \in 1..(i - 1) : options[k].value # value

NoTrial == [pc |-> "options", list |-> <<>>, tried |-> <<>>, found |-> FALSE]

InitRegistration ==
    /\ reg = [facilityName |-> PlantName, dispatchType |-> <<>>, options |-> <<>>, withData |-> {}]
    /\ trial = NoTrial

InitRegistrationAny ==
    /\ \E facilityName \in RegisteredNames, dispatchType \in DispatchTypes, options \in OptionLists(MaxOptions) :
         \E withData \in SUBSET (1..Len(options)) :
            reg = [facilityName |-> facilityName, dispatchType |-> dispatchType,
                   options |-> options, withData |-> withData]
    /\ trial = NoTrial

\* $$eval returned the options; registrationsToTry is built
OptionsRead ==
    /\ trial.pc = "options"
    /\ LET list == RegistrationsToTry(reg.options, reg.facilityName, reg.dispatchType)
       IN  trial' = [trial EXCEPT !.list = list,
                                  !.pc = IF list = <<>> THEN "done" ELSE "select"]
    /\ UNCHANGED <<reg, ledgerVars, monitorVars, schedVars, captureVars, parserVars, saveVars, readyVars, reconnVars, waitVars>>

\* one turn of the loop: the next registration is selected, the view
\* settles, hasUsageData() is asked; the loop breaks when it has data
RegistrationTried ==
    /\ trial.pc = "select"
    /\ LET candidate == trial.list[Len(trial.tried) + 1]
           hasData == Selected(reg.options, reg.options[candidate].value) \in reg.withData
           tried == Append(trial.tried, candidate)
       IN  trial' = [trial EXCEPT !.tried = tried,
                                  !.found = hasData,
                                  !.pc = IF hasData \/ Len(tried) = Len(trial.list)
                                         THEN "done" ELSE "select"]
    /\ UNCHANGED <<reg, ledgerVars, monitorVars, schedVars, captureVars, parserVars, saveVars, readyVars, reconnVars, waitVars>>

\* waitForSelector, $$eval, selectOption or waitForLoadState rejects: the
\* catch around the dropdown handling logs it and the loop is left
RegistrationRaised ==
    /\ trial.pc \in {"options", "select"}
    /\ trial' = [trial EXCEPT !.pc = "raised"]
    /\ UNCHANGED <<reg, ledgerVars, monitorVars, schedVars, captureVars, parserVars, saveVars, readyVars, reconnVars, waitVars>>

NextRegistration ==
    \/ OptionsRead
    \/ RegistrationTried
    \/ RegistrationRaised

(***************************************************************************)
(* captureUsage: its waits, for one registration.  Time is in seconds and  *)
(* is counted from the start of the loop the call is in.  The portal shows *)
(* a zero reading until its data is in; its chart-loading message and its  *)
(* blockUI overlay go away at some time or never.  The step of an awaited  *)
(* call is the call settling, by its own timeout at the latest.            *)
(***************************************************************************)
PollSeconds == 2
DefaultWaitSeconds == 35
ShortWaitSeconds == 6
MaxLatency == 1

\* config.usageDataWaitTime, 0 when it is not set
WaitChoices == {0, ShortWaitSeconds}

\* this.config.usageDataWaitTime || 35000
WaitTime(configured) == IF configured = 0 THEN DefaultWaitSeconds ELSE configured

\* (Date.now() - startTime) < waitTime
WithinWaitTime(elapsed, waitTime) == elapsed < waitTime

ChartKinds == {"none", "canvas", "svg"}

Contents == [elements : ElementLists(1), chartKind : ChartKinds]

Placeholder == [elements |-> <<ZeroReading>>, chartKind |-> "none"]

\* the page as the locators see it now
Visible(p) == IF p.loaded THEN p.content ELSE Placeholder

\* the page as hasUsageData() is handed it
AsPage(content) == [elements |-> content.elements, chart |-> content.chartKind # "none", raises |-> FALSE]

\* /\d{1,3}(,\d{3})*(\.\d+)?\s*kW.*@.*[AP]M/
MatchesTimedReading(text) ==
    \E i \in 1..Len(text) :
        /\ text[i] \in DigitChars
        /\ \E j \in (i + 1)..Len(text) :
              /\ \A k \in (i + 1)..(j - 1) : text[k] \in SpaceChars
              /\ OccursAt(text, <<"k", "W">>, j)
              /\ \E a \in (j + 2)..Len(text) :
                    /\ text[a] = "@"
                    /\ \E m \in (a + 1)..Len(text) :
                          OccursAt(text, <<"A", "M">>, m) \/ OccursAt(text, <<"P", "M">>, m)

\* /\d+.*kW/
MatchesSimpleReading(text) ==
    \E i \in 1..Len(text) :
        /\ text[i] \in DigitChars
        /\ \E j \in (i + 1)..Len(text) : OccursAt(text, <<"k", "W">>, j)

\* getUsageValue(): the text of the first timed reading, else of the first
\* simple one, else null (the empty text here: the caller tests its truth)
GetUsageValue(content) ==
    LET timed == SelectSeq(content.elements, MatchesTimedReading)
        simple == SelectSeq(content.elements, MatchesSimpleReading)
    IN  IF timed # <<>> THEN Head(timed)
        ELSE IF simple # <<>> THEN Head(simple)
        ELSE <<>>

\* the test of the Rhode Island Hospital loop: a timed reading that is not
\* a zero one, or a canvas and no 0.00 in the reading
DataLoaded(content) ==
    LET currentUsage == GetUsageValue(content)
    IN  \/ /\ currentUsage # <<>>
           /\ currentUsage # ZeroReading
           /\ currentUsage # <<"0", " ", "k", "W", "h">>
           /\ currentUsage # BareUnit
           /\ TextIncludes(currentUsage, <<"@">>)
        \/ /\ content.chartKind = "canvas"
           /\ ~TextIncludes(currentUsage, <<"0", ".", "0", "0">>)

NoWait(hospital, tab, configured) ==
    [pc |-> "selected", elapsed |-> 0, hospital |-> hospital, tab |-> tab,
     waitTime |-> WaitTime(configured), timeouts |-> 0, hasData |-> FALSE,
     shot |-> FALSE, raised |-> FALSE, result |-> "none"]

InitWait ==
    /\ portal = [content |-> Placeholder, loaded |-> FALSE, loading |-> FALSE, overlay |-> FALSE]
    /\ wait = NoWait(FALSE, FALSE, 0)

InitWaitAny ==
    /\ portal \in [content : Contents, loaded : BOOLEAN, loading : BOOLEAN, overlay : BOOLEAN]
    /\ \E hospital \in BOOLEAN, tab \in BOOLEAN, configured \in WaitChoices :
          wait = NoWait(hospital, tab, configured)

WaitFrame == UNCHANGED <<ledgerVars, monitorVars, schedVars, captureVars, parserVars, saveVars, readyVars, reconnVars, regVars>>

\* ---- the portal ----
DataArrives ==
    /\ ~portal.loaded
    /\ wait.pc # "returned"
    /\ portal' = [portal EXCEPT !.loaded = TRUE]
    /\ UNCHANGED wait
    /\ WaitFrame

LoadingEnds ==
    /\ portal.loading
    /\ wait.pc # "returned"
    /\ portal' = [portal EXCEPT !.loading = FALSE]
    /\ UNCHANGED wait
    /\ WaitFrame

OverlayClears ==
    /\ portal.overlay
    /\ wait.pc # "returned"
    /\ portal' = [portal EXCEPT !.overlay = FALSE]
    /\ UNCHANGED wait
    /\ WaitFrame

\* ---- captureUsage ----
\* selectOption and waitForLoadState settled: the long wait for the base
\* registration of Rhode Island Hospital, the standard 5 s for any other
RegistrationSelected ==
    /\ wait.pc = "selected"
    /\ wait' = [wait EXCEPT !.pc = IF wait.hospital THEN "dataWait" ELSE "accept",
                            !.elapsed = 0]
    /\ UNCHANGED portal
    /\ WaitFrame

\* one turn of `while (!dataLoaded && (Date.now() - startTime) < waitTime)`:
\* the loop is left at the ceiling or when the data is loaded; else
\* waitForTimeout(2000), the other awaits of the turn taking latency more
DataWaitPoll(latency) ==
    /\ wait.pc = "dataWait"
    /\ IF ~WithinWaitTime(wait.elapsed, wait.waitTime)
       THEN wait' = [wait EXCEPT !.pc = "overlayWait", !.timeouts = @ + 1]
       ELSE IF ~portal.loading /\ DataLoaded(Visible(portal))
       THEN wait' = [wait EXCEPT !.pc = "overlayWait"]
       ELSE wait' = [wait EXCEPT !.elapsed = @ + PollSeconds + latency]
    /\ UNCHANGED portal
    /\ WaitFrame

\* (a faulty variant) the timeout of an overlay wait ends the call
OverlayWaitedFatal(from, to) ==
    /\ wait.pc = from
    /\ wait' = IF portal.overlay
               THEN [wait EXCEPT !.pc = "returned", !.timeouts = @ + 1, !.result = "null"]
               ELSE [wait EXCEPT !.pc = to]
    /\ UNCHANGED portal
    /\ WaitFrame

\* waitForFunction(overlays gone, {timeout}) in a try/catch: it resolves,
\* or it rejects at its timeout and the catch logs a warning
OverlayWaited(from, to) ==
    /\ wait.pc = from
    /\ wait' = [wait EXCEPT !.pc = to,
                            !.timeouts = IF portal.overlay THEN @ + 1 ELSE @]
    /\ UNCHANGED portal
    /\ WaitFrame

\* `if (await hasUsageData())` of the registration loop, then the tab
\* handling when the dispatch is a targeted one and its tab is found
RegistrationChecked ==
    /\ wait.pc = "accept"
    /\ wait' = [wait EXCEPT !.pc = IF wait.tab THEN "tabOverlay" ELSE "drain"]
    /\ UNCHANGED portal
    /\ WaitFrame

\* the tab is clicked and waitForLoadState settles; when it rejects, the
\* catch around the tab handling logs it
TabClicked(ok) ==
    /\ wait.pc = "tabClick"
    /\ wait' = [wait EXCEPT !.pc = IF ok THEN "tabWait" ELSE "drain", !.elapsed = 0]
    /\ UNCHANGED portal
    /\ WaitFrame

\* one turn of `while ((Date.now() - startTime) < waitTime)` after the tab
\* click: the loading message skips the data check
TabWaitPoll(latency) ==
    /\ wait.pc = "tabWait"
    /\ IF ~WithinWaitTime(wait.elapsed, wait.waitTime)
       THEN wait' = [wait EXCEPT !.pc = "tabOverlayAfter", !.timeouts = @ + 1]
       ELSE IF portal.loading
       THEN wait' = [wait EXCEPT !.elapsed = @ + PollSeconds + latency]
       ELSE IF HasUsageData(AsPage(Visible(portal)))
       THEN wait' = [wait EXCEPT !.pc = "tabOverlayAfter"]
       ELSE wait' = [wait EXCEPT !.elapsed = @ + PollSeconds + latency]
    /\ UNCHANGED portal
    /\ WaitFrame

\* the final validation: hasData = await hasUsageData()
FinalValidated ==
    /\ wait.pc = "validate"
    /\ wait' = [wait EXCEPT !.pc = "shoot", !.hasData = HasUsageData(AsPage(Visible(portal)))]
    /\ UNCHANGED portal
    /\ WaitFrame

\* page.screenshot settles: the path or null is returned; when it rejects,
\* the outer catch returns null
ScreenshotDone(ok) ==
    /\ wait.pc = "shoot"
    /\ wait' = [wait EXCEPT !.pc = "returned",
                            !.shot = ok,
                            !.raised = ~ok,
                            !.result = IF ok /\ wait.hasData THEN "path" ELSE "null"]
    /\ UNCHANGED portal
    /\ WaitFrame

OverlayWaits ==
    {<<"overlayWait", "accept">>, <<"tabOverlay", "tabClick">>,
     <<"tabOverlayAfter", "drain">>, <<"drain", "validate">>}

CaptureStep ==
    \/ RegistrationSelected
    \/ \E latency \in 0..MaxLatency : DataWaitPoll(latency)
    \/ \E w \in OverlayWaits : OverlayWaited(w[1], w[2])
    \/ RegistrationChecked
    \/ \E ok \in BOOLEAN : TabClicked(ok)
    \/ \E latency \in 0..MaxLatency : TabWaitPoll(latency)
    \/ FinalValidated
    \/ \E ok \in BOOLEAN : ScreenshotDone(ok)

NextWait ==
    \/ DataArrives
    \/ LoadingEnds
    \/ OverlayClears
    \/ RegistrationSelected
    \/ \E latency \in 0..MaxLatency : DataWaitPoll(latency)
    \/ \E w \in OverlayWaits : OverlayWaited(w[1], w[2])
    \/ RegistrationChecked
    \/ \E ok \in BOOLEAN : TabClicked(ok)
    \/ \E latency \in 0..MaxLatency : TabWaitPoll(latency)
    \/ FinalValidated
    \/ \E ok \in BOOLEAN : ScreenshotDone(ok)

\* every awaited call of captureUsage settles: each has a timeout, its own
\* or the page's default one
FairWait == WF_vars(CaptureStep)

InitLate == InitRegistration /\ InitWait

(***************************************************************************)
(* Specifications                                                          *)
(***************************************************************************)
Init == InitTracker /\ InitMonitor /\ InitScheduler /\ InitCapture /\ InitParser /\ InitSave /\ InitReadiness /\ InitReconnect /\ InitLate

NextLedger ==
    \/ TrackerInitialize
    \/ TrackerInitializeSaveFails
    \/ \E id \in LedgerIds, raw \in LedgerRaws : TrackerMarkAsProcessed(id, raw)
    \/ \E id \in LedgerIds, raw \in LedgerRaws : TrackerMarkSaveFails(id, raw)
    \/ TrackerReset

InitLedgerSpec ==
    InitTrackerAged /\ InitMonitor /\ InitScheduler /\ InitCapture /\ InitParser /\ InitSave /\ InitReadiness /\ InitReconnect /\ InitLate

SpecLedger == InitLedgerSpec /\ [][NextLedger]_vars

SpecMonitor == Init /\ [][NextMonitor]_vars

InitSchedulerSpec ==
    InitTrackerNoFile /\ InitMonitor /\ InitScheduler /\ InitCapture /\ InitParser /\ InitSave /\ InitReadiness /\ InitReconnect /\ InitLate

SpecScheduler == InitSchedulerSpec /\ [][NextScheduler]_vars

\* SpecJob: the jobs of a single dispatch event, never cancelled, with sends
\* that can fail
ScheduleOneEvent(d, facs) == scheduled = 0 /\ ScheduleDispatchNotifications(d, facs)

NextJob ==
    \/ \E d \in (0 - 1)..MaxAhead, facs \in FacilityLists(MaxFacilities) : ScheduleOneEvent(d, facs)
    \/ Tick
    \/ \E j \in AllJobIds : Launched(j)
    \/ \E j \in AllJobIds : PageCreated(j)
    \/ \E j \in AllJobIds, ok \in BOOLEAN : LoginDone(j, ok)
    \/ \E j \in AllJobIds, hasData \in BOOLEAN : Captured(j, hasData)
    \/ \E j \in AllJobIds, failed \in SUBSET (1..MaxContacts) : Sent(j, failed)
    \/ \E j \in AllJobIds : ClosePageDone(j)
    \/ \E j \in AllJobIds : CloseBrowserDone(j)

SpecJob == InitSchedulerSpec /\ [][NextJob]_vars

InitCaptureSpec ==
    InitTrackerNoFile /\ InitMonitor /\ InitScheduler /\ InitCapture /\ InitParser /\ InitSave /\ InitReadiness /\ InitReconnect /\ InitLate

SpecCapture == InitCaptureSpec /\ [][NextCapture]_vars

InitParserSpec ==
    InitTrackerNoFile /\ InitMonitor /\ InitScheduler /\ InitCapture /\ InitParserAny /\ InitSave /\ InitReadiness /\ InitReconnect /\ InitLate

SpecParser == InitParserSpec /\ [][NextParser]_vars

InitSaveSpec ==
    InitTrackerNoFile /\ InitMonitor /\ InitScheduler /\ InitCapture /\ InitParser /\ InitSave /\ InitReadiness /\ InitReconnect /\ InitLate

SpecSave == InitSaveSpec /\ [][NextSave]_vars

InitReadinessSpec ==
    InitTrackerNoFile /\ InitMonitor /\ InitScheduler /\ InitCapture /\ InitParser /\ InitSave /\ InitReadinessAny /\ InitReconnect /\ InitLate

SpecReadiness == InitReadinessSpec /\ [][NextReadiness]_vars

InitReconnectSpec ==
    InitTrackerNoFile /\ InitMonitor /\ InitScheduler /\ InitCapture /\ InitParser /\ InitSave /\ InitReadiness /\ InitReconnect /\ InitLate

SpecReconnect == InitReconnectSpec /\ [][NextReconnect]_vars /\ FairReconnect

InitRegistrationSpec ==
    InitTrackerNoFile /\ InitMonitor /\ InitScheduler /\ InitCapture /\ InitParser /\ InitSave /\ InitReadiness /\ InitReconnect /\ InitRegistrationAny /\ InitWait

SpecRegistration == InitRegistrationSpec /\ [][NextRegistration]_vars

InitWaitSpec ==
    InitTrackerNoFile /\ InitMonitor /\ InitScheduler /\ InitCapture /\ InitParser /\ InitSave /\ InitReadiness /\ InitReconnect /\ InitRegistration /\ InitWaitAny

SpecWait == InitWaitSpec /\ [][NextWait]_vars /\ FairWait

(***************************************************************************)
(* Claims on the ledger and the watcher                                    *)
(***************************************************************************)
\* number of 'dispatch' events emitted for the mails whose raw content is raw
RECURSIVE EmitSum(_, _)
EmitSum(raw, n) ==
    IF n = 0 THEN 0
    ELSE EmitSum(raw, n - 1) + (IF n <= Len(mailbox) /\ mailbox[n].raw = raw THEN emitted[n] ELSE 0)

\* C1: whatever the interleaving of polling ticks and checkNow() calls, a
\* dispatch email (one message id, or one raw content under several ids)
\* causes at most one 'dispatch' event.
C1_DispatchEmittedAtMostOnce ==
    /\ \A u \in DOMAIN mailbox : emitted[u] <= 1
    /\ \A raw \in RawEmails : EmitSum(raw, MaxMails) <= 1

\* C2: once markAsProcessed(id, subject, from, content) has completed,
\* isProcessed(id, c) is true for every content c and isProcessed(id2, content)
\* is true for every id2; isProcessed is false for an id and a content neither
\* of which was ever recorded.
C2_MarkThenIsProcessed ==
    /\ lastOp.op = "markAsProcessed" =>
          /\ \A c \in RawEmails : IsProcessed(processed, lastOp.id, c)
          /\ \A id2 \in LedgerIds \cup {"other-id"} : IsProcessed(processed, id2, lastOp.raw)
    /\ \A id \in LedgerIds \cup {"other-id"}, c \in RawEmails :
          (id \notin everIds /\ GenerateHash(c) \notin everHashes)
             => ~IsProcessed(processed, id, c)

\* C2 witness: a mark has completed on a ledger that already held another
\* entry, and some id and content have never been recorded.
C2_Witness ==
    /\ lastOp.op = "markAsProcessed"
    /\ Cardinality(DOMAIN processed) >= 2
    /\ \E id \in LedgerIds, c \in RawEmails :
          /\ id # lastOp.id /\ id \notin DOMAIN processed
          /\ IsProcessed(processed, id, lastOp.raw)
          /\ ~IsProcessed(processed, id, c)

(***************************************************************************)
(* Claims on the scheduler                                                 *)
(***************************************************************************)
LastScheduled == lastCall.op = "scheduleDispatchNotifications"
LastFireTime == lastCall.startTime + NotifyDelayMinutes * SecondsPerMinute
LastNewJobs == {j \in DOMAIN jobs : j[2] > lastCall.counterBefore}

\* C3: right after scheduleDispatchNotifications(event) with startTime + 10
\* minutes in the future, the job table has exactly one new job per entry of
\* event.facilities, pending, with scheduledTime = startTime + 10 minutes; on
\* a scheduler that was fresh, getActiveJobs() has facilities.length jobs and
\* getStatistics() is {pending: facilities.length, 0, 0, 0}.
C3_FutureEventOnePendingJobPerFacility ==
    (LastScheduled /\ LastFireTime > now) =>
        LET facs == lastCall.facilities
        IN  /\ Cardinality(LastNewJobs) = Len(facs)
            /\ \A i \in 1..Len(facs) :
                  \E j \in LastNewJobs :
                      /\ j[2] = lastCall.counterBefore + i
                      /\ jobs[j].facilityName = facs[i]
                      /\ jobs[j].status = "pending"
                      /\ jobs[j].scheduledTime = LastFireTime
            /\ scheduled = 1 =>
                  /\ Cardinality(GetActiveJobs) = Len(facs)
                  /\ GetStatistics = [st \in {"pending", "running", "completed", "failed"} |->
                                         IF st = "pending" THEN Len(facs) ELSE 0]

\* C3 witness: a fresh scheduler has just scheduled a future event of two
\* facilities whose sanitized names coincide.
C3_Witness ==
    /\ LastScheduled /\ LastFireTime > now /\ scheduled = 1
    /\ Len(lastCall.facilities) = 2
    /\ lastCall.facilities[1] # lastCall.facilities[2]
    /\ Cardinality(GetActiveJobs) = 2

C5_StatusChangesFollowTheStateMachine ==
    [][\A j \in DOMAIN jobs :
          jobs'[j].status # jobs[j].status =>
              <<jobs[j].status, jobs'[j].status>> \in
                  { <<"pending", "running">>, <<"running", "completed">>,
                    <<"running", "failed">>, <<"pending", "failed">> }]_vars

\* C6: cancelJob on a pending job returns true, sets its status to failed and
\* stops its timer, and the job's processing never starts afterwards; a second
\* cancelJob on the same job returns false and changes nothing.
C6_CancelInv ==
    /\ (lastCall.op = "cancelJob" /\ lastCall.was = "pending") =>
          /\ lastCall.ret
          /\ jobs[lastCall.id].status = "failed"
          /\ ~jobs[lastCall.id].armed
    /\ (lastCall.op = "cancelJob" /\ lastCall.id \in DOMAIN jobs /\ lastCall.was # "pending") =>
          ~lastCall.ret
    /\ \A j \in DOMAIN jobs :
          jobs[j].cancelled =>
              /\ jobs[j].status = "failed"
              /\ j \notin DOMAIN procs
              /\ j \notin DOMAIN events

C6_CancelStep ==
    (lastCall'.op = "cancelJob" /\ ~lastCall'.ret) =>
        UNCHANGED <<now, jobCounter, jobs, procs, svc, browsers, events, scheduled>>

C6_CancelPendingJob == [][C6_CancelStep]_vars /\ []C6_CancelInv

\* C6 witness: a job was cancelled, the minute its timer was set for has come,
\* and a second cancelJob on it has just returned false.
C6_Witness ==
    /\ lastCall.op = "cancelJob" /\ ~lastCall.ret /\ lastCall.was = "failed"
    /\ lastCall.id \in DOMAIN jobs
    /\ jobs[lastCall.id].cancelled
    /\ CronMatches(jobs[lastCall.id].cron, now)
    /\ now >= jobs[lastCall.id].scheduledTime

\* C7: a timer-scheduled job never starts processing before its fire time,
\* event.startTime + 10 minutes, seconds included.
C7_NeverStartsBeforeFireTime ==
    \A j \in DOMAIN jobs :
        (jobs[j].status # "pending" /\ ~jobs[j].cancelled) => now >= jobs[j].scheduledTime

\* C8: a job scheduled for a future fire time and never cancelled fires at that
\* time: once its fire time has been reached it is no longer pending.
C8_NotPendingOnceFireTimeReached ==
    \A j \in DOMAIN jobs :
        (jobs[j].status = "pending" /\ ~jobs[j].cancelled) => now < jobs[j].scheduledTime

InFlight(j) == j \in DOMAIN procs
PastCapture(j) == InFlight(j) /\ procs[j].pc \in {"send", "closePage", "closeBrowser"}

\* C9: jobs are independent: when a job's own capture failed or ended early,
\* a sibling running concurrently still gets the capture result its own portal
\* session gives it (the screenshot of its facility, unless its own login or
\* its own facility's data is at fault).
C9_SiblingOutcomeIndependent ==
    \A a, b \in DOMAIN procs :
        (a # b /\ PastCapture(a) /\ procs[a].ownFault /\ PastCapture(b) /\ ~procs[b].ownFault)
            => procs[b].shot = PathShot(procs[b].facility)

\* C10: each job uses a browser session of its own: while a job is logging in
\* or capturing, the service's page is the one of the browser that job
\* launched, and it has not been closed by another job.
C10_OwnSessionWhileCapturing ==
    \A j \in DOMAIN procs :
        procs[j].pc \in {"login", "capture"} => (svc.page = j /\ Usable(j))

Last(seq) == seq[Len(seq)]
Closing(j) == InFlight(j) /\ procs[j].pc \in {"closePage", "closeBrowser"}
LoginRefused(j) == InFlight(j) /\ procs[j].shot = NoShot /\ procs[j].ownFault
CaptureFailed(j) == PastCapture(j) /\ procs[j].shot.kind # "path"
JobIs(j, status) == j \in DOMAIN jobs => jobs[j].status = status

\* C11: every browser a job launched is closed by the time the job ends: when
\* no job is running any more, no browser launched by a job is still open.
C11_NoBrowserLeftOpen == procs = EmptyMap => browsers = EmptyMap

\* the sends of job j go to every matched contact, one each, in order
OneSendPerContact(j) ==
    /\ Len(procs[j].sends) = Len(procs[j].contacts)
    /\ \A i \in DOMAIN procs[j].contacts : procs[j].sends[i].to = procs[j].contacts[i]

C12_Inv ==
    \A j \in DOMAIN procs :
        (CaptureFailed(j) /\ procs[j].contacts # <<>>) =>
            /\ OneSendPerContact(j)
            /\ \A i \in DOMAIN procs[j].sends : procs[j].sends[i].attachment.kind # "path"
            /\ Closing(j) => (Last(events[j]) = "jobCompleted" /\ JobIs(j, "completed"))

C12_Step ==
    \A j \in DOMAIN procs :
        (procs[j].pc = "send" /\ CaptureFailed(j)
            /\ (j \notin DOMAIN procs' \/ procs'[j].pc # "send")) =>
            /\ Last(events'[j]) = "jobCompleted"
            /\ j \in DOMAIN jobs => jobs'[j].status = "completed"

\* C12: when the capture of a job failed (null result, or the step raised),
\* the job still starts one send per matched contact, without an attachment,
\* and once the sends have settled it emits jobCompleted and is `completed`.
C12_CaptureFailureStillDelivers == []C12_Inv /\ [][C12_Step]_vars

\* C12 witness: a job whose capture returned null has attempted its two sends
\* and is closing, completed; another run had its capture step raise.
C12_Witness ==
    \E j \in DOMAIN procs :
        /\ Closing(j) /\ procs[j].shot = NullShot /\ ~procs[j].ownFault
        /\ Len(procs[j].sends) = 2
        /\ Last(events[j]) = "jobCompleted"

EmailFailedOf(j) ==
    SelectSeq(events[j], LAMBDA e : e \notin {"jobStarted", "noContactsFound",
                                              "jobCompleted", "jobFailed"})

\* C14: in a job with n >= 1 matched contacts exactly one send is attempted
\* per contact whatever subset of the sends fails; each failed send emits
\* emailFailed for its contact, once, and the job still is `completed`.
C14_SendFailuresAreIsolated ==
    \A j \in DOMAIN procs :
        (PastCapture(j) /\ procs[j].contacts # <<>>) =>
            /\ OneSendPerContact(j)
            /\ Closing(j) =>
                  /\ Len(EmailFailedOf(j)) = Cardinality(procs[j].failed)
                  /\ \A i \in DOMAIN procs[j].contacts :
                        i \in procs[j].failed <=>
                            \E k \in DOMAIN events[j] :
                                events[j][k] = "emailFailed:" \o procs[j].contacts[i]
                  /\ Last(events[j]) = "jobCompleted"
                  /\ JobIs(j, "completed")

\* C14 witness: of the two sends of a timer job the first failed and the
\* second went through; the job is closing.
C14_Witness ==
    \E j \in DOMAIN procs :
        /\ Closing(j) /\ j \in DOMAIN jobs
        /\ Len(procs[j].contacts) = 2
        /\ procs[j].failed = {1}
        /\ jobs[j].status = "completed"

CaptureSettled == call.op = "captureUsage" /\ call.pc = "idle"
InsideTry == {"impersonate", "waits", "validate", "screenshot"}

C16_Step ==
    (call'.op = "captureUsage" /\ call'.pc = "idle" /\ call' # call) =>
        /\ call'.result \in {"path", "null", "loginError", "notInitialized"}
        /\ call'.result = "notInitialized" <=> (call.pc = "idle" /\ ~service.page)
        /\ call'.result = "loginError" => (call.pc = "login" /\ ~service.isLoggedIn)
        /\ call.pc \in InsideTry => call'.result \in {"path", "null"}

\* C16 (as the code has it): captureUsage lets two exceptions escape, both
\* raised before its try block: 'Browser not initialized' when there is no
\* page, and the error of the login() it awaits when not logged in; every
\* failure after that is caught and turned into a null result.
C16_OnlyPreTryErrorsEscape == [][C16_Step]_vars

\* C16 witness: a page operation inside the try block raised, the catch
\* block took its error screenshot and the call returned null.
C16_Witness ==
    /\ CaptureSettled
    /\ "error" \in call.files
    /\ call.result = "null"

\* C16 (as stated): whatever captureUsage lets escape is a login failure.
C16_OnlyLoginErrorEscapes ==
    (CaptureSettled /\ call.result \notin {"path", "null"}) => call.result = "loginError"

\* the senders above that carry the vendor's dispatch address, and the
\* subjects above that contain one of the three phrases in some letter case
VendorFroms ==
    { <<"CPower", "Dispatch", "@", "cpowerny.com">>,
      <<"cpower", "dispatch", "@", "cpowerny.com">> }
PhraseSubjects ==
    { <<"CPower", " ", "Dispatched", " ", "Event">>,
      <<"DISPATCH", " ", "EVENT", " ", "notice">>,
      <<"Re:", " ", "Curtailment">> }
WasParsed == parsed # NotParsed
WellTimed(t) == t.shape = "match" /\ t.hh <= 12 /\ t.mo \in 1..12

C18_NullWithoutBothTimes ==
    (WasParsed /\ (~WellTimed(email.start) \/ ~WellTimed(email.end))) =>
        parsed.kind = "null"

(***************************************************************************)
(* Claims on the ledger's load and its file                                *)
(***************************************************************************)
InitializeReturned == lastOp.op \in {"initialize", "initializeSaveFailed"}
LoadedAFile == InitializeReturned /\ lastOp.file.exists
WithinRetention(e) == e.processedAt >= Today - RetentionDays
RecentOf(entries) == {e \in entries : WithinRetention(e)}
\* what the map held before the call under ids the file does not have
OwnBefore == {e \in Entries(lastOp.before) : e.messageId \notin FileIds(lastOp.file)}
SomeDropped == \E e \in lastOp.file.entries \cup OwnBefore : ~WithinRetention(e)

\* C19 (as the code has it): after initialize() has read the ledger file and
\* returned, the map holds every entry of the file that is within the last
\* 30 days, none of its older ones, and besides them only the recent entries
\* it already held under other ids; when an entry was dropped the file holds
\* the pruned set, unless the write failed, and then the file is as it was.
C19_InitializePrunes ==
    LoadedAFile =>
        /\ \A e \in lastOp.file.entries :
              IF WithinRetention(e)
              THEN e.messageId \in DOMAIN processed /\ processed[e.messageId] = e
              ELSE e.messageId \notin DOMAIN processed
        /\ Entries(processed) = RecentOf(lastOp.file.entries) \cup RecentOf(OwnBefore)
        /\ ledgerFile = IF SomeDropped /\ lastOp.op = "initialize"
                        THEN FileOf(Entries(processed)) ELSE lastOp.file

\* C19 witness: initialize() read a file with an entry of 31 days ago and a
\* recent one, dropped the old one and wrote the pruned set back.
C19_Witness ==
    /\ lastOp.op = "initialize" /\ lastOp.file.exists
    /\ \E e \in lastOp.file.entries : ~WithinRetention(e)
    /\ \E e \in lastOp.file.entries : WithinRetention(e)
    /\ Entries(processed) = RecentOf(lastOp.file.entries)
    /\ ledgerFile = FileOf(Entries(processed))
    /\ ledgerFile # lastOp.file

\* C19 (as stated): after initialize() the ledger holds exactly the file's
\* entries of the last 30 days, and the file equals the pruned set whenever
\* an entry was dropped.
C19_LedgerIsExactlyTheRecentFileEntries ==
    LoadedAFile =>
        /\ Entries(processed) = RecentOf(lastOp.file.entries)
        /\ SomeDropped => ledgerFile = FileOf(Entries(processed))

\* C20: at every point of every execution the ledger path names no file or
\* a file whose text is one complete entry set that a save wrote, so that a
\* crash at any step leaves no half-written ledger.
C20_LedgerFileNeverHalfWritten ==
    disk.ledger.exists =>
        /\ disk.ledger.complete
        /\ \A e \in disk.ledger.data : e.messageId \in LedgerIds

AllSavesReturned == \A s \in Savers : saves[s].pc = "idle"
SomeSaveReturned == \E s \in Savers : saves[s].result = "saved"
NoSaveRejected == \A s \in Savers : saves[s].result # "ENOENT"

\* C21: once every markAsProcessed call has returned, the ledger file holds
\* exactly the entries of the in-memory map, whether the calls were made one
\* after the other or overlapped.
C21_FileEqualsMapAfterMarks ==
    (AllSavesReturned /\ SomeSaveReturned /\ NoSaveRejected) =>
        /\ disk.ledger.exists /\ disk.ledger.complete
        /\ disk.ledger.data = Entries(processed)

EntriesOfId(entries, id) == {e \in entries : e.messageId = id}

C22_Inv ==
    /\ \A k \in DOMAIN processed : processed[k].messageId = k
    /\ \A id \in LedgerIds : Cardinality(EntriesOfId(Entries(processed), id)) <= 1
    /\ StatsTotal(processed) = Cardinality({e.messageId : e \in Entries(processed)})
    /\ ledgerFile.exists =>
          \A id \in LedgerIds : Cardinality(EntriesOfId(ledgerFile.entries, id)) <= 1

C22_Step ==
    \A id \in LedgerIds :
        (lastOp' # lastOp /\ lastOp'.op \in {"markAsProcessed", "markAsProcessedFailed"}
         /\ lastOp'.id = id) =>
            /\ id \in DOMAIN processed => StatsTotal(processed') = StatsTotal(processed)
            /\ id \notin DOMAIN processed => StatsTotal(processed') = StatsTotal(processed) + 1
            /\ processed'[id].contentHash = GenerateHash(lastOp'.raw)

\* C22: the ledger holds at most one entry per message id, in the map and in
\* the file: marking an id again, with the same or another content, replaces
\* its entry and leaves stats().total as it was.
C22_OneEntryPerMessageId == []C22_Inv /\ [][C22_Step]_vars

\* C22 witness: an id the ledger already held has been marked again, with
\* another content, and beside it the ledger holds another id.
C22_Witness ==
    /\ lastOp.op = "markAsProcessed"
    /\ lastOp.had
    /\ \E e \in ledgerFile.entries : e.contentHash # GenerateHash(lastOp.raw)
    /\ Cardinality(everHashes) >= 3
    /\ StatsTotal(processed) = 2
    /\ ledgerFile = FileOf(Entries(processed))

ChecksInFlight == {s \in CheckSlots : checks[s].pc # "idle"}

\* C24: at most one inbox check is in flight at any time: no check, from a
\* polling tick, from startMonitoring or from checkNow, begins while another
\* one has not returned.
C24_AtMostOneCheckInFlight == Cardinality(ChecksInFlight) <= 1

C30_Step ==
    \A uid \in DOMAIN mailbox :
        (uid \in DOMAIN emitted /\ emitted'[uid] = emitted[uid] + 1) =>
            /\ MessageIdOf(uid) \in DOMAIN processed
            /\ \E s \in CheckSlots : checks[s].pc = "markRead" /\ Head(checks[s].msgs) = uid
            /\ ledgerFile.exists
            /\ MessageIdOf(uid) \in FileIds(ledgerFile)

\* C30: at every step that emits `dispatch` for a message, the message is
\* already in the ledger's map, the ledger file on disk already holds its
\* entry, and markAsRead has already been called for it.
C30_RecordedPersistedReadBeforeEmit == [][C30_Step]_vars

\* C26: every DispatchEvent parseEmailContent returns has two valid
\* timestamps, the start strictly earlier than the end.
C26_StartBeforeEnd ==
    (WasParsed /\ parsed.kind = "event") =>
        /\ parsed.startTime.valid /\ parsed.endTime.valid
        /\ parsed.startTime.time < parsed.endTime.time

\* C28: when a contact name was given, captureUsage returns a path only if
\* the session was switched into that contact's view.
C28_PathOnlyInContactView ==
    (CaptureSettled /\ call.contact /\ call.result = "path") => call.switched


C27_Step ==
    (lastCall'.op = "cancelJob" /\ lastCall'.was # "pending") =>
        /\ lastCall'.ret = FALSE
        /\ jobs' = jobs
        /\ procs' = procs
        /\ events' = events

\* C27: cancelJob on a job that is running, completed, failed or unknown
\* returns false, changes no job's status, timer or cancelled mark (so no
\* jobCancelled is emitted), and leaves every run of processFacility where
\* it was, free to go on to its own end.
C27_RejectedCancelChangesNothing == [][C27_Step]_vars

C27_Witness ==
    /\ lastCall.op = "cancelJob"
    /\ lastCall.was = "running"
    /\ ~lastCall.ret
    /\ lastCall.id \in DOMAIN procs
    /\ jobs[lastCall.id].status = "running"
    /\ jobs[lastCall.id].armed
    /\ ~jobs[lastCall.id].cancelled

C29_NewIds == (DOMAIN jobs' \ DOMAIN jobs) \cup (DOMAIN procs' \ DOMAIN procs)

C29_Step ==
    /\ jobCounter' >= jobCounter
    /\ \A j \in DOMAIN jobs' \cup DOMAIN procs' : j[2] >= 1 /\ j[2] <= jobCounter'
    /\ lastCall'.op = "scheduleDispatchNotifications" =>
          /\ Cardinality(C29_NewIds) = Len(lastCall'.facilities)
          /\ \A j \in C29_NewIds : j[2] > jobCounter
          /\ \A j \in DOMAIN jobs : j \in DOMAIN jobs' /\ jobs'[j] = jobs[j]
          /\ \A j \in DOMAIN procs : j \in DOMAIN procs' /\ procs'[j] = procs[j]

\* C29: every scheduleDispatchNotifications call, future or past-due, gives
\* each of its facilities an id of its own: as many new ids as facilities,
\* each with a counter above every counter handed out before, and no entry
\* of the job table (or run in flight) that existed before is replaced.
C29_JobIdsUnique == [][C29_Step]_vars

C29_Witness ==
    /\ LastScheduled
    /\ Len(lastCall.facilities) = 2
    /\ lastCall.facilities[1] # lastCall.facilities[2]
    /\ Sanitize(lastCall.facilities[1]) = Sanitize(lastCall.facilities[2])
    /\ Cardinality(LastNewJobs) = 2
    /\ \E j, k \in LastNewJobs : j # k /\ j[3] = k[3]

\* a reading of the form <number> kW ... @ <time> AM/PM
IsPowerReading(text) ==
    /\ text # <<>>
    /\ text[1] \in DigitChars
    /\ MatchesPower(text, <<"k", "W">>)
    /\ \E i \in 1..Len(text) :
          /\ text[i] = "@"
          /\ \E j \in 1..(i - 1) : OccursAt(text, <<"k", "W">>, j)
    /\ \/ OccursAt(text, <<"A", "M">>, Len(text) - 1)
       \/ OccursAt(text, <<"P", "M">>, Len(text) - 1)

C25_OnlyReading(text) == shown.elements = <<text>> /\ ~shown.chart /\ ~shown.raises

\* C25: hasUsageData rejects a page whose only reading is "0.00 kWh" or the
\* bare "kWh", and accepts a page whose only reading has the form
\* <number> kW ... @ <time> AM/PM, whatever its digits.
C25_RejectsZeroAcceptsReadings ==
    ready.checked =>
        /\ (C25_OnlyReading(ZeroReading) \/ C25_OnlyReading(BareUnit)) => ~ready.value
        /\ \A text \in ElementTexts :
              (IsPowerReading(text) /\ C25_OnlyReading(text)) => ready.value

C23_ServerBackForGood == net.server = "up" /\ net.faults = MaxFaults

\* C23: once a check has failed with a connection error and the server is
\* reachable again for good, a later polling tick fetches the unread mail
\* again (unless a later check fails with an error that is not taken for a
\* connection error).
C23_FetchesAgainAfterFault ==
    (seen.failed /\ ~seen.unnoticed /\ C23_ServerBackForGood) ~> (seen.fetched \/ seen.unnoticed)

\* check s is at a message for which parseEmailContent returns null and
\* which the ledger does not know
C31_AtNull(s) ==
    /\ checks[s].msgs # <<>>
    /\ ~ParsesToDispatch(mailbox[Head(checks[s].msgs)].raw)
    /\ ~IsProcessed(processed, MessageIdOf(Head(checks[s].msgs)), mailbox[Head(checks[s].msgs)].raw)

C31_Vendor(s) == FromIncludesCpower(mailbox[Head(checks[s].msgs)].raw.from)

C31_ParseStep ==
    \A s \in CheckSlots :
        (checks[s].pc = "parseEmailContent" /\ C31_AtNull(s) /\ checks'[s] # checks[s]) =>
            /\ processed' = processed /\ ledgerFile' = ledgerFile /\ tmpFile' = tmpFile
            /\ emitted' = emitted
            /\ mailbox' = mailbox
            /\ C31_Vendor(s) <=> (checks'[s].pc = "markReadSkip" /\ checks'[s].msgs = checks[s].msgs)

C31_MarkStep ==
    \A s \in CheckSlots :
        (checks[s].pc = "markReadSkip" /\ C31_AtNull(s) /\ checks'[s] # checks[s]) =>
            /\ C31_Vendor(s)
            /\ processed' = processed /\ ledgerFile' = ledgerFile /\ tmpFile' = tmpFile
            /\ emitted' = emitted

\* C31 (as amended): handling a message for which parseEmailContent returns
\* null changes neither the ledger (map, file, temp file) nor the count of
\* emitted events; markAsRead is called for it exactly when its sender
\* includes 'cpower', and a message of any other sender keeps its flags.
C31_NullParseFrame == [][C31_ParseStep /\ C31_MarkStep]_vars

C31_Witness ==
    \E s \in CheckSlots :
        /\ checks[s].pc = "markReadSkip"
        /\ C31_AtNull(s)
        /\ C31_Vendor(s)
        /\ ~mailbox[Head(checks[s].msgs)].seen

C31_SeenAfterMark ==
    \A s \in CheckSlots :
        (checks[s].pc = "markReadSkip" /\ C31_AtNull(s) /\ checks'[s] # checks[s]) =>
            mailbox'[Head(checks[s].msgs)].seen

\* C31 (as stated): a message of the vendor for which parseEmailContent
\* returns null is marked read, that is, it carries the Seen flag once
\* processMessage is done with it.
C31_NullVendorMessageIsRead == [][C31_SeenAfterMark]_vars

TerminalAt(seq) == {i \in DOMAIN seq : seq[i] \in {"jobCompleted", "jobFailed"}}
BeforeSends(j) == InFlight(j) /\ procs[j].pc \in {"launch", "newPage", "login", "capture"}

\* C32: within one run of processFacility jobStarted is emitted before the
\* capture begins, no send exists before the capture step has returned,
\* jobCompleted is not emitted while the sends are unsettled, and a run
\* started by a timer belongs to a job that was put in the table (and
\* announced by jobScheduled) before.
C32_StepsInOrder ==
    \A j \in DOMAIN procs :
        /\ j \in DOMAIN events /\ events[j] # <<>> /\ events[j][1] = "jobStarted"
        /\ BeforeSends(j) => procs[j].sends = <<>> /\ events[j] = <<"jobStarted">>
        /\ procs[j].pc = "send" =>
              /\ procs[j].sends # <<>>
              /\ \A i \in DOMAIN procs[j].sends : procs[j].sends[i].attachment = procs[j].shot
              /\ TerminalAt(events[j]) = {}
        /\ j[1] = "job" => j \in DOMAIN jobs /\ jobs[j].status # "pending"

C32_Witness ==
    \E j \in DOMAIN procs :
        /\ j[1] = "job"
        /\ procs[j].pc = "closePage"
        /\ Len(procs[j].sends) = 2
        /\ procs[j].shot.kind = "path"
        /\ events[j] = <<"jobStarted", "jobCompleted">>

C36_Inv ==
    \A j \in DOMAIN events :
        /\ events[j] # <<>> /\ events[j][1] = "jobStarted"
        /\ Cardinality(TerminalAt(events[j])) <= 1
        /\ TerminalAt(events[j]) \subseteq {Len(events[j])}
        /\ (~InFlight(j) \/ Closing(j)) <=> TerminalAt(events[j]) # {}

C36_Step ==
    \A j \in DOMAIN events :
        (TerminalAt(events[j]) # {} /\ j \in DOMAIN events') => events'[j] = events[j]

C35_Submits == call'.submitted /\ (call.pc = "idle" \/ ~call.submitted) /\ call' # call

C35_Step ==
    /\ C35_Submits => ~service.isLoggedIn
    /\ (service'.isLoggedIn /\ ~service.isLoggedIn) => C35_Submits /\ call'.result # "loginError"
    /\ (service.isLoggedIn /\ ~service'.isLoggedIn) => call'.op = "close"
    /\ (call'.op = "close" /\ call' # call) => ~service'.isLoggedIn
    /\ (call'.op = "captureUsage" /\ call.pc = "idle" /\ call'.pc # "idle" /\ ~service.isLoggedIn) =>
          call'.pc = "login"

\* C35: isLoggedIn becomes true only by a login form that was accepted and
\* false only by close(); while it is true no login() or captureUsage() call
\* sends the form again, and after close() the next captureUsage() logs in.
C35_LoginOncePerSession == [][C35_Step]_vars

C35_Witness ==
    /\ call.op = "login" /\ call.pc = "idle" /\ call.result = "void"
    /\ ~call.submitted
    /\ service.isLoggedIn /\ service.pageAuthed

\* C39: whenever isLoggedIn is true, the page the service holds is one on
\* which a login succeeded, so that a capture that skips login() works on
\* an authenticated page.
C39_LoggedInMeansPageAuthed == service.isLoggedIn => (service.page /\ service.pageAuthed)

\* C37: no polling timer is armed once monitoring has been stopped: the
\* interval is set only while isMonitoring is true, whatever the order of
\* startMonitoring, its initial check and stopMonitoring.
C37_NoTimerOnceStopped == intervalId => isMonitoring

C38_Step ==
    \A s \in CheckSlots :
        (checks[s].pc = "writeFile" /\ checks'[s] # checks[s] /\ checks'[s].pc # "rename") =>
            ~IsProcessed(processed', MessageIdOf(Head(checks[s].msgs)),
                         mailbox[Head(checks[s].msgs)].raw)

\* C38: when the save of markAsProcessed raises, the message is not known
\* to the ledger afterwards: isProcessed is false for it, so that a later
\* check parses it again.
C38_FailedSaveLeavesMessageUnprocessed == [][C38_Step]_vars

C40_Step ==
    lastOp'.op \in {"markAsProcessed", "markAsProcessedFailed"} =>
        \A id \in LedgerIds, raw \in LedgerRaws :
            IsProcessed(processed, id, raw) => IsProcessed(processed', id, raw)

\* C40: a markAsProcessed call never takes a message out of the skip set:
\* every (id, content) for which isProcessed was true before the call is
\* still processed after it.
C40_SkipSetOnlyGrows == [][C40_Step]_vars


(***************************************************************************)
(* Claims on the registration dropdown and the waits of captureUsage       *)
(***************************************************************************)
\* the view an entry of registrationsToTry brings up has usage data
ViewHasData(position) == Selected(reg.options, reg.options[position].value) \in reg.withData

IsTargetedVariant(position) ==
    position \in {TargetedVariants(reg.options, reg.facilityName, reg.dispatchType)[k] :
                    k \in 1..Len(TargetedVariants(reg.options, reg.facilityName, reg.dispatchType))}

IsBaseMatch(position) == BaseMatch(reg.options, reg.facilityName) = <<position>>

\* the registrations are tried as listed, and the list is in priority order:
\* for Rhode Island Hospital the base match comes first; for any other
\* facility the variants of the dispatch type come before every other
\* entry, and the base match before every entry that is neither
C33_InPriorityOrder ==
    /\ Len(trial.tried) <= Len(trial.list)
    /\ \A k \in 1..Len(trial.tried) : trial.tried[k] = trial.list[k]
    /\ trial.pc \in {"select", "done"} =>
          IF IsHospital(reg.facilityName)
          THEN HospitalBase(reg.options) # <<>> => Head(trial.list) = Head(HospitalBase(reg.options))
          ELSE \A k \in 1..Len(trial.list), l \in 1..Len(trial.list) :
                  /\ (k < l /\ IsTargetedVariant(trial.list[l])) => IsTargetedVariant(trial.list[k])
                  /\ (k < l /\ IsBaseMatch(trial.list[l])) =>
                        (IsTargetedVariant(trial.list[k]) \/ IsBaseMatch(trial.list[k]))

\* no option of the dropdown is tried twice
C33_AtMostOnce ==
    \A k \in 1..Len(trial.tried), l \in 1..Len(trial.tried) :
        k # l => trial.tried[k] # trial.tried[l]

\* the loop goes on exactly until a view has data
C33_StopsAtFirstData ==
    /\ \A k \in 1..(Len(trial.tried) - 1) : ~ViewHasData(trial.tried[k])
    /\ trial.found <=> (trial.tried # <<>> /\ ViewHasData(trial.tried[Len(trial.tried)]))
    /\ trial.pc = "select" => ~trial.found
    /\ (trial.pc = "done" /\ ~trial.found) => Len(trial.tried) = Len(trial.list)

\* C33: the registration candidates are tried in priority order (the base
\* match first for Rhode Island Hospital, otherwise the variants of the
\* dispatch type, then the base match, then the remaining options that
\* match the name), each candidate at most once, and the selection stops at
\* the first candidate whose view passes the data-readiness check.
C33_TriedInOrderOnceUntilData ==
    /\ C33_InPriorityOrder
    /\ C33_AtMostOnce
    /\ C33_StopsAtFirstData

\* the same without "at most once"
C33_TriedInOrderUntilData ==
    /\ C33_InPriorityOrder
    /\ C33_StopsAtFirstData

\* hasUsageData() would pass on what the page shows now
GenuineDataVisible == HasUsageData(AsPage(Visible(portal)))

\* a loop never runs past its ceiling by more than one turn; the call
\* returns the path or null; the screenshot is taken unless page.screenshot
\* itself rejects, however many waits timed out; without data the result
\* is null
C34_Inv ==
    /\ wait.pc \in {"dataWait", "tabWait"} => wait.elapsed < wait.waitTime + PollSeconds + MaxLatency
    /\ wait.pc = "returned" =>
          /\ wait.result \in {"null", "path"}
          /\ ~wait.raised => wait.shot
          /\ wait.result = "path" <=> (wait.shot /\ wait.hasData)
          /\ ~portal.loaded => wait.result = "null"

\* a turn that starts at or past the ceiling leaves its loop
C34_EndsAtCeiling ==
    (wait' # wait /\ wait.pc \in {"dataWait", "tabWait"} /\ wait.elapsed >= wait.waitTime)
        => wait'.pc \notin {"dataWait", "tabWait"}

\* a turn in which the loop's own test passes leaves the loop at once: the
\* test of the Rhode Island Hospital loop, hasUsageData() in the tab loop
C34_ExitsOnOwnTest ==
    /\ (wait' # wait /\ wait.pc = "dataWait" /\ ~portal.loading /\ DataLoaded(Visible(portal)))
          => (wait'.pc = "overlayWait" /\ wait'.elapsed = wait.elapsed)
    /\ (wait' # wait /\ wait.pc = "tabWait" /\ ~portal.loading /\ GenuineDataVisible
          /\ wait.elapsed < wait.waitTime)
          => (wait'.pc = "tabOverlayAfter" /\ wait'.elapsed = wait.elapsed)

\* a turn with no loading message and with data that hasUsageData() accepts
\* leaves the loop at once, in either loop
C34_ExitsOnGenuineData ==
    (wait' # wait /\ wait.pc \in {"dataWait", "tabWait"} /\ ~portal.loading /\ GenuineDataVisible)
        => (wait'.pc \notin {"dataWait", "tabWait"} /\ wait'.elapsed = wait.elapsed)

C34_Returned == wait.pc = "returned"

\* C34 (as the code has it): captureUsage always terminates: every wait
\* loop ends at its ceiling, the overlay timeouts are not fatal, the
\* screenshot is still taken and the call returns (null without data); the
\* tab loop exits as soon as hasUsageData() passes, and the Rhode Island
\* Hospital loop as soon as its own test passes (a timed reading that is
\* not a zero one, or a canvas and no 0.00 in the reading).
C34_WaitsEndAndCallReturns ==
    /\ []C34_Inv
    /\ [][C34_EndsAtCeiling /\ C34_ExitsOnOwnTest]_vars
    /\ <>C34_Returned

\* both loops ran to their ceiling, all four overlay waits timed out, the
\* data never came, and the call took the screenshot and returned null
C34_Witness ==
    /\ wait.pc = "returned"
    /\ wait.hospital /\ wait.tab
    /\ wait.timeouts = 6
    /\ ~portal.loaded /\ portal.overlay
    /\ wait.shot
    /\ wait.result = "null"

\* C34: captureUsage always terminates: if the portal never shows usage
\* data and its loading overlays never clear, every wait loop ends at its
\* ceiling, the overlay timeouts are not fatal, the screenshot is still
\* taken, and the call returns (null) instead of waiting forever; each
\* data-wait loop exits as soon as genuine data is observed.
C34_TerminatesAndExitsOnGenuineData ==
    /\ []C34_Inv
    /\ [][C34_EndsAtCeiling /\ C34_ExitsOnGenuineData]_vars
    /\ <>C34_Returned

====
